---------------------------- MODULE Spec2Model ----------------------------
(***************************************************************************)
(* A model of the narrow-phase collision core of JoltPhysics:              *)
(*   - HeightFieldShape (construction, queries, binary state),             *)
(*   - ScaledShape (forwarding of queries to the inner shape),             *)
(*   - CollisionDispatch,                                                  *)
(*   - NarrowPhaseQuery (broad-phase collectors and early-out).            *)
(* Arrays keep the 0-based indexing of the source: an array of n elements  *)
(* is a function with domain 0..n-1.                                       *)
(***************************************************************************)
EXTENDS Integers, Sequences, FiniteSets, TLC

VARIABLES
    cBlockSize,     \* HeightFieldShape: the leaf block size the library was built with
    settings,       \* the HeightFieldShapeSettings handed to Create
    result,         \* the ShapeResult (mCachedResult): empty, error or shape
    shape,          \* the fields of the constructed HeightFieldShape
    query,          \* the last query made on the shape and its outcome
    stream,         \* the binary stream written by SaveBinaryState
    restored,       \* the fields of the shape filled by RestoreBinaryState
    request,        \* the request made on a shape or on the CollisionDispatch
    received,       \* the call the request ends in, with the arguments it receives
    call,           \* NarrowPhaseQuery: the operation in progress and what the broad phase did
    collector,      \* NarrowPhaseQuery: the MyCollector handed to the broad phase
    ioCollector,    \* NarrowPhaseQuery: the collector of the caller
    ioHit,          \* NarrowPhaseQuery: the RayCastResult of the caller
    log,            \* NarrowPhaseQuery: what the call asked of the body interface and the shapes
    threads         \* BodyLockInterface: the threads that lock bodies and the mutexes they hold

hfVars == <<cBlockSize, settings, result, shape, query, stream, restored>>

dispatchVars == <<request, received>>

npqVars == <<call, collector, ioCollector, ioHit, log>>

lockVars == <<threads>>

vars == <<hfVars, dispatchVars, npqVars, lockVars>>

-----------------------------------------------------------------------------
(* Program constants (HeightFieldShapeConstants, SubShapeID)                *)

\* FLT_MAX, the value of a height sample that marks a hole
cNoCollisionValue == 1000000
cNoCollisionValue16 == 65535
cMaxHeightValue16 == 65534
cNoCollisionValue8 == 255
cMaxHeightValue8 == 254
cNumBitsXY == 14

\* HeightFieldShapeConstants::cStackSize: the size of the stacks of a walk
cStackSize == 128

SubShapeIDMaxBits == 32
MaxMaterials == 256

\* The block sizes the library may be built with
BlockSizes == {2, 4}

-----------------------------------------------------------------------------
(* Bounds of the model                                                      *)

\* Heights of the input samples are 0..MaxHeight
MaxHeight == 2
\* Sample counts 0..MaxSampleCount are tried (and the too large ones below)
MaxSampleCount == 8

-----------------------------------------------------------------------------
(* Arithmetic helpers                                                       *)

RECURSIVE Pow2(_)
Pow2(n) == IF n = 0 THEN 1 ELSE 2 * Pow2(n - 1)

\* inV & (inV - 1) == 0 on unsigned integers: true of 0 and of the powers of two
RECURSIVE IsPowerOf2(_)
IsPowerOf2(v) ==
    IF v <= 1 THEN TRUE
    ELSE IF v % 2 = 1 THEN FALSE
    ELSE IsPowerOf2(v \div 2)

\* Number of trailing zero bits of a 32 bit value (32 for 0)
RECURSIVE CountTrailingZeros(_)
CountTrailingZeros(v) ==
    IF v = 0 THEN 32
    ELSE IF v % 2 = 1 THEN 0
    ELSE 1 + CountTrailingZeros(v \div 2)

\* Number of leading zero bits of a 32 bit value
RECURSIVE BitLength(_)
BitLength(v) == IF v = 0 THEN 0 ELSE 1 + BitLength(v \div 2)

CountLeadingZeros(v) == 32 - BitLength(v)

Square(v) == v * v

MinOf(a, b) == IF a < b THEN a ELSE b
MaxOf(a, b) == IF a > b THEN a ELSE b

SetMin(S) == CHOOSE m \in S : \A o \in S : m <= o
SetMax(S) == CHOOSE m \in S : \A o \in S : m >= o

\* round(num / den) for num >= 0, den > 0: halves round away from zero
RoundDiv(num, den) == (2 * num + den) \div (2 * den)

Len0(a) == Cardinality(DOMAIN a)

EmptyArray == [i \in {} |-> 0]


-----------------------------------------------------------------------------
(* HeightFieldShapeSettings: the inputs of the model                        *)

HeightValues == (0 .. MaxHeight) \cup {cNoCollisionValue}

\* The value most samples of an input field have: the lowest height, or a hole
BackgroundValues == {0, cNoCollisionValue}

\* Height arrays of inN x inN samples: a background value and up to two
\* samples that deviate from it
HeightArrays2(inN) ==
    { [i \in 0 .. inN * inN - 1 |-> IF i = p THEN v ELSE IF i = q THEN w ELSE b] :
        b \in BackgroundValues, v \in HeightValues, w \in HeightValues,
        p \in 0 .. inN * inN - 1, q \in 0 .. inN * inN - 1 }

\* Height arrays of inN x inN samples: a background value, up to one sample
\* anywhere that deviates from it and the sample in the centre, which is
\* shared by four leaf blocks
HeightArrays1(inN) ==
    { [i \in 0 .. inN * inN - 1 |->
            IF i = p THEN v ELSE IF i = (inN \div 2) * inN + (inN \div 2) THEN w ELSE b] :
        b \in BackgroundValues, v \in HeightValues, w \in HeightValues,
        p \in 0 .. inN * inN - 1 }

FlatArray(inN, inValue) == [i \in 0 .. inN * inN - 1 |-> inValue]

\* The material list: material k is named by the number 100 + k
MaterialList(inCount) == [i \in 0 .. inCount - 1 |-> 100 + i]

MaterialCounts == {0, 1, 2, 3, 5, MaxMaterials, MaxMaterials + 1}
MaterialIndexValues == {0, 1, 2, 4, 255}

\* Material index arrays for the (inN - 1)^2 quads: empty, or a background
\* index and up to one quad that deviates from it
MaterialIndexArrays(inN) ==
    {EmptyArray} \cup
    { [i \in 0 .. Square(inN - 1) - 1 |-> IF i = p THEN v ELSE b] :
        b \in MaterialIndexValues, v \in MaterialIndexValues,
        p \in 0 .. Square(inN - 1) - 1 }

MakeSettings(inSampleCount, inHeights, inMaterialIndices, inMaterials) ==
    [ mSampleCount     |-> inSampleCount,
      mHeightSamples   |-> inHeights,
      mOffset          |-> <<0, 0, 0>>,
      mScale           |-> <<1, 1, 1>>,
      mMaterialIndices |-> inMaterialIndices,
      mMaterials       |-> inMaterials ]

\* Sample counts beyond the addressable range; their height arrays are never
\* read by the constructor and are left empty in the model
HugeSampleCounts == {32768 * 2, 32768 * 4}

\* Height fields without materials
HeightSettings4 == { MakeSettings(4, h, EmptyArray, EmptyArray) : h \in HeightArrays2(4) }
HeightSettings8 == { MakeSettings(8, h, EmptyArray, EmptyArray) : h \in HeightArrays1(8) }

\* Flat height fields with materials. A list of 2 .. 256 materials comes with
\* one index per quad (as the constructor of the settings makes it): the
\* constructor of the shape reads an index for every quad of such a field
MaterialSettings ==
    { s \in { MakeSettings(4, FlatArray(4, 0), mi, MaterialList(n)) :
                mi \in MaterialIndexArrays(4), n \in MaterialCounts } :
        (Len0(s.mMaterials) > 1 /\ Len0(s.mMaterials) <= MaxMaterials)
            => Len0(s.mMaterialIndices) = Square(s.mSampleCount - 1) }

\* Flat height fields of every sample count, valid or not
SampleCountSettings ==
    { MakeSettings(n, FlatArray(n, 0), EmptyArray, EmptyArray) : n \in 0 .. MaxSampleCount } \cup
    { MakeSettings(n, EmptyArray, EmptyArray, EmptyArray) : n \in HugeSampleCounts }

\* The settings tried with each block size: a library built with the larger
\* block size is given the sample counts and the larger fields only
SettingsInputs(inBlockSize) ==
    IF inBlockSize = 2
    THEN HeightSettings4 \cup HeightSettings8 \cup MaterialSettings \cup SampleCountSettings
    ELSE HeightSettings8 \cup SampleCountSettings

-----------------------------------------------------------------------------
(* HeightFieldShape::HeightFieldShape: validation of the settings           *)

NoError == "none"

\* GetSubShapeIDBits without the bit for the triangle
GetSubShapeIDBitsOf_NoTriangleBit(inSampleCount) == 2 * CountTrailingZeros(inSampleCount)

GetSubShapeIDBitsOf(inSampleCount) == 2 * CountTrailingZeros(inSampleCount) + 1

\* ConstructionError with the material index test off by one
ConstructionError_IndexOffByOne(inSettings) ==
    LET n    == inSettings.mSampleCount
        mats == Len0(inSettings.mMaterials)
        idx  == inSettings.mMaterialIndices
    IN  IF ~IsPowerOf2(n) THEN "Sample count must be power of 2"
        ELSE IF n < cBlockSize * 2 THEN "Sample count too low"
        ELSE IF n > cBlockSize * Pow2(cNumBitsXY) THEN "Sample count too high"
        ELSE IF GetSubShapeIDBitsOf(n) > SubShapeIDMaxBits THEN "Exceeds sub shape ID bits"
        ELSE IF mats # 0
             THEN IF mats > MaxMaterials THEN "Max 256 materials"
                  ELSE IF \E i \in DOMAIN idx : idx[i] > mats THEN "Material beyond list"
                  ELSE NoError
             ELSE IF Len0(idx) # 0 THEN "No materials present"
                  ELSE NoError

\* The first error the constructor reports, NoError when it builds the shape
ConstructionError(inSettings) ==
    LET n    == inSettings.mSampleCount
        mats == Len0(inSettings.mMaterials)
        idx  == inSettings.mMaterialIndices
    IN  IF ~IsPowerOf2(n) THEN "Sample count must be power of 2"
        ELSE IF n < cBlockSize * 2 THEN "Sample count too low"
        ELSE IF n > cBlockSize * Pow2(cNumBitsXY) THEN "Sample count too high"
        ELSE IF GetSubShapeIDBitsOf(n) > SubShapeIDMaxBits THEN "Exceeds sub shape ID bits"
        ELSE IF mats # 0
             THEN IF mats > MaxMaterials THEN "Max 256 materials"
                  ELSE IF \E i \in DOMAIN idx : idx[i] >= mats THEN "Material beyond list"
                  ELSE NoError
             ELSE IF Len0(idx) # 0 THEN "No materials present"
                  ELSE NoError

-----------------------------------------------------------------------------
(* HeightFieldShape::HeightFieldShape: quantization and range hierarchy     *)

CollidableHeights(inSettings) ==
    { inSettings.mHeightSamples[i] : i \in DOMAIN inSettings.mHeightSamples } \ {cNoCollisionValue}

\* min_value / max_value: FLT_MAX / -FLT_MAX when no sample has collision
MinValue(inSettings) ==
    IF CollidableHeights(inSettings) = {} THEN cNoCollisionValue
    ELSE SetMin(CollidableHeights(inSettings))

MaxValue(inSettings) ==
    IF CollidableHeights(inSettings) = {} THEN -cNoCollisionValue
    ELSE SetMax(CollidableHeights(inSettings))

\* QuantizedSamples with the scale cNoCollisionValue16 / (max - min)
QuantizedSamples_ScaledToSentinel(inSettings) ==
    LET lo == MinValue(inSettings)
        hi == MaxValue(inSettings)
    IN  [ i \in DOMAIN inSettings.mHeightSamples |->
            LET h == inSettings.mHeightSamples[i]
            IN  IF h = cNoCollisionValue THEN cNoCollisionValue16
                ELSE IF lo < hi THEN RoundDiv(cNoCollisionValue16 * (h - lo), hi - lo)
                ELSE h - lo ]

\* quantized_samples: scale is cMaxHeightValue16 / (max - min) when min < max, else 1
QuantizedSamples(inSettings) ==
    LET lo == MinValue(inSettings)
        hi == MaxValue(inSettings)
    IN  [ i \in DOMAIN inSettings.mHeightSamples |->
            LET h == inSettings.mHeightSamples[i]
            IN  IF h = cNoCollisionValue THEN cNoCollisionValue16
                ELSE IF lo < hi THEN RoundDiv(cMaxHeightValue16 * (h - lo), hi - lo)
                ELSE h - lo ]

\* One Range of the highest detail grid: block (x, y) of cBlockSize^2 samples,
\* plus one more row / column for all but the last block
LeafRange(inQuantized, inSampleCount, x, y) ==
    LET n      == inSampleCount \div cBlockSize
        max_bx == IF x = n - 1 THEN cBlockSize ELSE cBlockSize + 1
        max_by == IF y = n - 1 THEN cBlockSize ELSE cBlockSize + 1
        hs     == { inQuantized[(y * cBlockSize + by) * inSampleCount + (x * cBlockSize + bx)] :
                      bx \in 0 .. max_bx - 1, by \in 0 .. max_by - 1 } \ {cNoCollisionValue16}
    IN  [ mMin |-> IF hs = {} THEN 65535 ELSE MinOf(65535, SetMin(hs)),
          mMax |-> IF hs = {} THEN 0 ELSE MaxOf(0, SetMax(hs)) ]

LeafRanges(inQuantized, inSampleCount) ==
    LET n == inSampleCount \div cBlockSize
    IN  [ i \in 0 .. n * n - 1 |-> LeafRange(inQuantized, inSampleCount, i % n, i \div n) ]

\* CombineRange reading the source grid with the row stride of the target grid
CombineRange_WrongStride(inSrc, inN, x, y) ==
    LET rs == { inSrc[(y * 2 + by) * inN + x * 2 + bx] : bx \in 0 .. 1, by \in 0 .. 1 }
    IN  [ mMin |-> MinOf(65535, SetMin({ r.mMin : r \in rs })),
          mMax |-> MaxOf(0, SetMax({ r.mMax : r \in rs })) ]

\* Combine the results of 2x2 ranges: inSrc is a grid of (2 inN)^2 ranges
CombineRange(inSrc, inN, x, y) ==
    LET rs == { inSrc[(y * 2 + by) * inN * 2 + x * 2 + bx] : bx \in 0 .. 1, by \in 0 .. 1 }
    IN  [ mMin |-> MinOf(65535, SetMin({ r.mMin : r \in rs })),
          mMax |-> MaxOf(0, SetMax({ r.mMax : r \in rs })) ]

CombineRanges(inSrc, inN) ==
    [ i \in 0 .. inN * inN - 1 |-> CombineRange(inSrc, inN, i % inN, i \div inN) ]

\* ranges[level] for level 0 .. max_level, as a sequence indexed by level + 1;
\* inAcc holds the grids built so far, lowest level first, and inN is the
\* size of its first grid
RECURSIVE BuildRanges(_, _)
BuildRanges(inAcc, inN) ==
    IF inN > 1
    THEN BuildRanges(<<CombineRanges(inAcc[1], inN \div 2)>> \o inAcc, inN \div 2)
    ELSE inAcc

Ranges(inSettings) ==
    LET n == inSettings.mSampleCount \div cBlockSize
    IN  BuildRanges(<<LeafRanges(QuantizedSamples(inSettings), inSettings.mSampleCount)>>, n)

\* sGridOffsets[level]
sGridOffsets ==
    <<0, 1, 5, 21, 85, 341, 1365, 5461, 21845, 87381, 349525, 1398101,
      5592405, 22369621, 89478485>>

GridOffset(inLevel) == sGridOffsets[inLevel + 1]

\* Convert from the 2x2 Range structure to 1 RangeBlock structure
MakeRangeBlock(inRangeLevel, inN, x, y) ==
    [ mMin |-> [ d \in 0 .. 3 |-> inRangeLevel[(y * 2 + (d \div 2)) * inN * 2 + (x * 2 + (d % 2))].mMin ],
      mMax |-> [ d \in 0 .. 3 |-> inRangeLevel[(y * 2 + (d \div 2)) * inN * 2 + (x * 2 + (d % 2))].mMax ] ]

\* The level block inIndex of mRangeBlocks belongs to
RECURSIVE LevelOfBlock(_, _)
LevelOfBlock(inIndex, inLevel) ==
    IF inIndex < GridOffset(inLevel + 1) THEN inLevel ELSE LevelOfBlock(inIndex, inLevel + 1)

\* mRangeBlocks: ranges[0] is erased, then every level is stored as blocks
RangeBlocks(inRanges) ==
    LET levels == Len(inRanges) - 1
    IN  [ i \in 0 .. GridOffset(levels) - 1 |->
            LET level == LevelOfBlock(i, 0)
                n     == Pow2(level)
                pos   == i - GridOffset(level)
            IN  MakeRangeBlock(inRanges[level + 2], n, pos % n, pos \div n) ]

\* mHeightSamples: quantize to 8 bits relative to the range of the sample's block
HeightSamples8(inSettings, inRanges) ==
    LET count == inSettings.mSampleCount
        q     == QuantizedSamples(inSettings)
        leaf  == inRanges[Len(inRanges)]
    IN  [ i \in 0 .. count * count - 1 |->
            LET x     == i % count
                y     == i \div count
                range == leaf[((y \div cBlockSize) * (count \div cBlockSize)) + (x \div cBlockSize)]
                h     == q[i]
            IN  IF h = cNoCollisionValue16 THEN cNoCollisionValue8
                ELSE IF range.mMax = range.mMin THEN 0
                ELSE RoundDiv((h - range.mMin) * cMaxHeightValue8, range.mMax - range.mMin) ]


-----------------------------------------------------------------------------
(* Bit operations on unsigned integers                                      *)

RECURSIVE BitOr(_, _)
BitOr(a, b) ==
    IF a = 0 THEN b
    ELSE IF b = 0 THEN a
    ELSE (IF a % 2 = 1 \/ b % 2 = 1 THEN 1 ELSE 0) + 2 * BitOr(a \div 2, b \div 2)

RECURSIVE BitAnd(_, _)
BitAnd(a, b) ==
    IF a = 0 \/ b = 0 THEN 0
    ELSE (IF a % 2 = 1 /\ b % 2 = 1 THEN 1 ELSE 0) + 2 * BitAnd(a \div 2, b \div 2)

\* uint16 value shifted left by inBits, truncated to 16 bits
ShiftLeft16(inValue, inBits) == (inValue * Pow2(inBits)) % 65536

\* ioArray[byte_pos] |= uint8(inWord); ioArray[byte_pos + 1] |= uint8(inWord >> 8)
OrWord(ioArray, inBytePos, inWord) ==
    [ ioArray EXCEPT ![inBytePos]     = BitOr(@, inWord % 256),
                     ![inBytePos + 1] = BitOr(@, inWord \div 256) ]

\* uint16(inArray[byte_pos]) + uint16(uint16(inArray[byte_pos + 1]) << 8)
ReadWord(inArray, inBytePos) == inArray[inBytePos] + 256 * inArray[inBytePos + 1]

ZeroArray(inSize) == [i \in 0 .. inSize - 1 |-> 0]

-----------------------------------------------------------------------------
(* HeightFieldShape::HeightFieldShape: active edges and material indices    *)

\* IsNoCollision on an array of 8 bit height samples
IsNoCollisionIn(inHeightSamples, inSampleCount, inX, inY) ==
    inHeightSamples[inY * inSampleCount + inX] = cNoCollisionValue8

\* Whether normals[inIndex] is set: triangle inIndex % 2 of quad inIndex / 2
\* has three vertices with collision (the normal stays zero otherwise)
HasNormal(inHeightSamples, inSampleCount, inIndex) ==
    LET cm1 == inSampleCount - 1
        x   == (inIndex \div 2) % cm1
        y   == (inIndex \div 2) \div cm1
    IN  /\ ~IsNoCollisionIn(inHeightSamples, inSampleCount, x, y)
        /\ ~IsNoCollisionIn(inHeightSamples, inSampleCount, x + 1, y + 1)
        /\ IF inIndex % 2 = 0
           THEN ~IsNoCollisionIn(inHeightSamples, inSampleCount, x, y + 1)
           ELSE ~IsNoCollisionIn(inHeightSamples, inSampleCount, x + 1, y)

\* The outcome of the angle test of ActiveEdges::IsEdgeActive on two existing
\* triangles. It depends on float geometry the model does not carry: the
\* model fixes a pattern in which both outcomes occur
GeometricEdgeTest(inIndex1, inIndex2) == (inIndex1 + inIndex2) % 2 = 0

\* ActiveEdges::IsEdgeActive(normals[inIndex1], normals[inIndex2], edge):
\* a zero normal makes the edge active
IsEdgeActive(inHeightSamples, inSampleCount, inIndex1, inIndex2) ==
    IF ~HasNormal(inHeightSamples, inSampleCount, inIndex1) THEN TRUE
    ELSE IF ~HasNormal(inHeightSamples, inSampleCount, inIndex2) THEN TRUE
    ELSE GeometricEdgeTest(inIndex1 \div 2, (inIndex2 \div 2) + inIndex2)

\* The 3 bit edge flags of quad (x, y)
QuadEdgeFlags(inHeightSamples, inSampleCount, x, y) ==
    LET cm1    == inSampleCount - 1
        offset == 2 * (cm1 * y + x)
        edge0  == x = 0 \/ IsEdgeActive(inHeightSamples, inSampleCount, offset, offset - 1)
        edge1  == y = cm1 - 1 \/ IsEdgeActive(inHeightSamples, inSampleCount, offset, offset + 2 * cm1 + 1)
        edge2  == IsEdgeActive(inHeightSamples, inSampleCount, offset, offset + 1)
    IN  (IF edge0 THEN 1 ELSE 0) + (IF edge1 THEN 2 ELSE 0) + (IF edge2 THEN 4 ELSE 0)

\* Store the edge flags of quads inQuad, inQuad + 1, ... in the array
RECURSIVE StoreEdgeFlags(_, _, _, _)
StoreEdgeFlags(ioArray, inHeightSamples, inSampleCount, inQuad) ==
    LET cm1 == inSampleCount - 1
    IN  IF inQuad >= Square(cm1) THEN ioArray
        ELSE LET flags   == QuadEdgeFlags(inHeightSamples, inSampleCount, inQuad % cm1, inQuad \div cm1)
                 bit_pos == 3 * inQuad
             IN  StoreEdgeFlags(OrWord(ioArray, bit_pos \div 8, ShiftLeft16(flags, bit_pos % 8)),
                                inHeightSamples, inSampleCount, inQuad + 1)

\* mActiveEdges: 3 bits per quad and 1 byte padding
ActiveEdges(inHeightSamples, inSampleCount) ==
    StoreEdgeFlags(ZeroArray(((Square(inSampleCount - 1) * 3 + 7) \div 8) + 1),
                   inHeightSamples, inSampleCount, 0)

\* mNumBitsPerMaterialIndex: 32 - CountLeadingZeros(size - 1) for more than 1 material
NumBitsPerMaterialIndex(inNumMaterials) ==
    IF inNumMaterials > 1 THEN 32 - CountLeadingZeros(inNumMaterials - 1) ELSE 0

\* StoreMaterialIndices without the write to the second byte
RECURSIVE StoreMaterialIndices_LowByteOnly(_, _, _, _, _)
StoreMaterialIndices_LowByteOnly(ioArray, inIndices, inNumBits, inSampleCount, inQuad) ==
    IF inQuad >= Square(inSampleCount - 1) THEN ioArray
    ELSE LET bit_pos == inQuad * inNumBits
         IN  StoreMaterialIndices_LowByteOnly(
                 [ ioArray EXCEPT ![bit_pos \div 8] =
                     BitOr(@, ShiftLeft16(inIndices[inQuad], bit_pos % 8) % 256) ],
                 inIndices, inNumBits, inSampleCount, inQuad + 1)

\* Write the material index of quads inQuad, inQuad + 1, ... into the array
RECURSIVE StoreMaterialIndices(_, _, _, _, _)
StoreMaterialIndices(ioArray, inIndices, inNumBits, inSampleCount, inQuad) ==
    IF inQuad >= Square(inSampleCount - 1) THEN ioArray
    ELSE LET bit_pos == inQuad * inNumBits
         IN  StoreMaterialIndices(
                 OrWord(ioArray, bit_pos \div 8, ShiftLeft16(inIndices[inQuad], bit_pos % 8)),
                 inIndices, inNumBits, inSampleCount, inQuad + 1)

\* mMaterialIndices: compressed only when there is more than 1 material
PackedMaterialIndices(inSettings) ==
    LET mats == Len0(inSettings.mMaterials)
        bits == NumBitsPerMaterialIndex(mats)
        cm1  == inSettings.mSampleCount - 1
    IN  IF mats > 1
        THEN StoreMaterialIndices(ZeroArray(((Square(cm1) * bits + 7) \div 8) + 1),
                                  inSettings.mMaterialIndices, bits, inSettings.mSampleCount, 0)
        ELSE EmptyArray

-----------------------------------------------------------------------------
(* HeightFieldShape::HeightFieldShape: the constructed shape                *)

\* A float that is the quotient of two integers
Rational(inNum, inDen) == [num |-> inNum, den |-> inDen]

\* The fields of the shape after a successful construction
BuildShape(inSettings) ==
    LET lo      == MinValue(inSettings)
        hi      == MaxValue(inSettings)
        ranges  == Ranges(inSettings)
        samples == HeightSamples8(inSettings, ranges)
    IN  [ mOffset      |-> << inSettings.mOffset[1],
                              IF lo <= hi THEN inSettings.mOffset[2] + lo ELSE inSettings.mOffset[2],
                              inSettings.mOffset[3] >>,
          mScale       |-> << Rational(inSettings.mScale[1], 1),
                              IF lo < hi THEN Rational(inSettings.mScale[2] * (hi - lo), cMaxHeightValue16)
                                         ELSE Rational(inSettings.mScale[2], 1),
                              Rational(inSettings.mScale[3], 1) >>,
          mMaterials   |-> inSettings.mMaterials,
          mSampleCount |-> inSettings.mSampleCount,
          mMinSample   |-> ranges[1][0].mMin,
          mMaxSample   |-> ranges[1][0].mMax,
          mRangeBlocks |-> RangeBlocks(ranges),
          mHeightSamples |-> samples,
          mActiveEdges |-> ActiveEdges(samples, inSettings.mSampleCount),
          mMaterialIndices |-> PackedMaterialIndices(inSettings),
          mNumBitsPerMaterialIndex |-> NumBitsPerMaterialIndex(Len0(inSettings.mMaterials)) ]

\* No request has been made
NoRequest == [ op |-> "none" ]
NothingReceived == [ fn |-> "none" ]

\* No thread locks a body
InitLockVars == threads = << >>

InitDispatchVars ==
    /\ request = NoRequest
    /\ received = NothingReceived

\* No operation of the NarrowPhaseQuery is in progress
NoCall ==
    [ op |-> "none", pc |-> "idle", bodyFilter |-> << >>, initial |-> 0,
      delivered |-> 0, last |-> 0, returned |-> "none" ]

NoCollector == [ traits |-> "none", mEarlyOutFraction |-> 0, hits |-> << >> ]

\* No RayCastResult is part of the operation
NoHit == [ mBodyID |-> 0, mFraction |-> 0 ]

EmptyLog ==
    [ resolved |-> << >>, queries |-> << >>, hits |-> << >>, callerNonIncreasing |-> TRUE,
      events |-> << >> ]

InitNarrowPhaseVars ==
    /\ call = NoCall
    /\ collector = NoCollector
    /\ ioCollector = NoCollector
    /\ ioHit = NoHit
    /\ log = EmptyLog

\* A shape object before its fields are set
NoShape == [ mSampleCount |-> 0 ]

EmptyResult == [ state |-> "empty", error |-> NoError ]

NoQuery == [ op |-> "none" ]

-----------------------------------------------------------------------------
(* Positions of the vertices. Coordinates along x and z are held in         *)
(* quarters of a sample distance and heights in HeightUnit-ths of 1, so     *)
(* that every value of the exact arithmetic is an integer                   *)

HeightUnit == 4 * cMaxHeightValue8 * cMaxHeightValue16

\* mOffset.y + mScale.y * v, for a quantized height v given as inValue254 / 254
HeightOf(inShape, inValue254) ==
    (inShape.mOffset[2] * HeightUnit)
        + ((IF inShape.mScale[2].den = 1 THEN inShape.mScale[2].num * cMaxHeightValue16
                                         ELSE inShape.mScale[2].num) * 4 * inValue254)

\* mOffset.x + mScale.x * inX (the same along z with inAxis = 3)
GridPosition(inShape, inAxis, inX) ==
    4 * (inShape.mOffset[inAxis] + (inShape.mScale[inAxis].num * inX))

\* The range of leaf block (inBX, inBY) of inNumBlocks x inNumBlocks: entry n
\* of the range block (rbx, rby) of the last level
RangeOfBlock(inShape, inNumBlocks, inBX, inBY) ==
    [ mMin |-> inShape.mRangeBlocks[GridOffset(CountTrailingZeros(inNumBlocks) - 1)
                                      + ((inBY \div 2) * (inNumBlocks \div 2)) + (inBX \div 2)
                                   ].mMin[((inBY % 2) * 2) + (inBX % 2)],
      mMax |-> inShape.mRangeBlocks[GridOffset(CountTrailingZeros(inNumBlocks) - 1)
                                      + ((inBY \div 2) * (inNumBlocks \div 2)) + (inBX \div 2)
                                   ].mMax[((inBY % 2) * 2) + (inBX % 2)] ]

\* GetBlockOffsetAndScale: the entry of the range block that holds the range of
\* the leaf block of sample (inX, inY)
GetBlockOffsetAndScale(inShape, inX, inY) ==
    RangeOfBlock(inShape, inShape.mSampleCount \div cBlockSize, inX \div cBlockSize, inY \div cBlockSize)

\* inBlockOffset + mHeightSamples[...] * inBlockScale, scaled to a height
HeightOfSample(inShape, inBlock, inSample) ==
    HeightOf(inShape, (cMaxHeightValue8 * inBlock.mMin) + (inSample * (inBlock.mMax - inBlock.mMin)))

\* GetPosition: the height of the vertex at sample (inX, inY)
GetPositionY(inShape, inX, inY) ==
    HeightOfSample(inShape, GetBlockOffsetAndScale(inShape, inX, inY),
                   inShape.mHeightSamples[(inY * inShape.mSampleCount) + inX])

IsNoCollision(inShape, inX, inY) ==
    IsNoCollisionIn(inShape.mHeightSamples, inShape.mSampleCount, inX, inY)

\* The value EncodeSubShapeID pushes onto the sub shape ID
EncodeSubShapeID(inShape, inX, inY, inTriangle) ==
    ((inX + (inY * inShape.mSampleCount)) * 2) + inTriangle

\* v1 + f12 * (v2 - v1) + f23 * (v3 - v2) for heights v1, v2, v3 and the
\* fractions f12 = inFrac12 / 4, f23 = inFrac23 / 4
Interpolate(inV1, inV2, inV3, inFrac12, inFrac23) ==
    inV1 + (((inFrac12 * (inV2 - inV1)) + (inFrac23 * (inV3 - inV2))) \div 4)

\* The height of triangle inTriangle of quad (inX, inY) above the point that
\* lies inU / 4 along x and inW / 4 along z from the first vertex of the quad:
\* v1 + y_frac * (v2 - v1) + x_frac * (v3 - v2) for triangle 0 and, with the
\* vertices in the order (x, y), (x + 1, y), (x + 1, y + 1), the same value
\* as v1 + y_frac * (v2 - v3) + x_frac * (v3 - v1) for triangle 1
TriangleHeightAt(inShape, inX, inY, inTriangle, inU, inW) ==
    IF inTriangle = 0
    THEN Interpolate(GetPositionY(inShape, inX, inY), GetPositionY(inShape, inX, inY + 1),
                     GetPositionY(inShape, inX + 1, inY + 1), inW, inU)
    ELSE Interpolate(GetPositionY(inShape, inX, inY), GetPositionY(inShape, inX + 1, inY),
                     GetPositionY(inShape, inX + 1, inY + 1), inU, inW)

-----------------------------------------------------------------------------
(* HeightFieldShape::CastRay (single hit) through WalkHeightField. The rays *)
(* of the model run along the y axis with a direction of length 10; a ray   *)
(* fraction is held in FractionOne-ths                                      *)

FractionOne == 10 * HeightUnit

\* FLT_MAX as a ray fraction: the value the ray tests return when they miss
cFltMax == 2000000000

\* 1.0f + FLT_EPSILON, the fraction of a default constructed RayCastResult
cDefaultFraction == FractionOne + 1

\* The fraction at which the ray reaches the height inHeight
RayFraction(inRay, inHeight) ==
    IF inRay.mDirection[2] < 0
    THEN (inRay.mOrigin[2] * HeightUnit) - inHeight
    ELSE inHeight - (inRay.mOrigin[2] * HeightUnit)

\* The height the ray has reached at fraction inFraction
RayHeightAt(inRay, inFraction) ==
    IF inRay.mDirection[2] < 0
    THEN (inRay.mOrigin[2] * HeightUnit) - inFraction
    ELSE (inRay.mOrigin[2] * HeightUnit) + inFraction

\* RayAABox4 for one box: the fraction at which the ray enters the box, cFltMax
\* when the box is invalid, is not met by the line of the ray or lies behind
\* the origin of the ray
RayAABox(inRay, inMinX, inMinY, inMinZ, inMaxX, inMaxY, inMaxZ) ==
    IF inMinX > inMaxX \/ inMinY > inMaxY \/ inMinZ > inMaxZ THEN cFltMax
    ELSE IF inRay.mOrigin[1] < inMinX \/ inRay.mOrigin[1] > inMaxX THEN cFltMax
    ELSE IF inRay.mOrigin[3] < inMinZ \/ inRay.mOrigin[3] > inMaxZ THEN cFltMax
    ELSE LET t1 == RayFraction(inRay, inMinY)
             t2 == RayFraction(inRay, inMaxY)
         IN  IF MaxOf(t1, t2) < 0 THEN cFltMax ELSE MinOf(t1, t2)

\* The test of RayTriangle for a point inU, inW from the first vertex of a
\* quad of size inSizeX, inSizeZ, where the ray meets the plane of the triangle
\* at inFraction
RayTriangleAt(inU, inW, inSizeX, inSizeZ, inTriangle, inFraction) ==
    IF inU < 0 \/ inW < 0 \/ inU > inSizeX \/ inW > inSizeZ THEN cFltMax
    ELSE IF inTriangle = 0 /\ inW < inU THEN cFltMax
    ELSE IF inTriangle = 1 /\ inU < inW THEN cFltMax
    ELSE IF inFraction < 0 THEN cFltMax
    ELSE inFraction

\* RayTriangle for triangle inTriangle of quad (inX, inY): the fraction of the
\* intersection, cFltMax when the ray misses the triangle (edges included in
\* the triangle) or meets it behind its origin
RayTriangle(inShape, inRay, inX, inY, inTriangle) ==
    RayTriangleAt(inRay.mOrigin[1] - GridPosition(inShape, 1, inX),
                  inRay.mOrigin[3] - GridPosition(inShape, 3, inY),
                  GridPosition(inShape, 1, inX + 1) - GridPosition(inShape, 1, inX),
                  GridPosition(inShape, 3, inY + 1) - GridPosition(inShape, 3, inY),
                  inTriangle,
                  RayFraction(inRay, TriangleHeightAt(inShape, inX, inY, inTriangle,
                                         inRay.mOrigin[1] - GridPosition(inShape, 1, inX),
                                         inRay.mOrigin[3] - GridPosition(inShape, 3, inY))))

\* The hit of the visitor replaced by a hit that is farther away
AddFartherHit(inVisitor, inFraction, inSubShapeID) ==
    IF inFraction > inVisitor.mFraction /\ inFraction < cFltMax
    THEN [ inVisitor EXCEPT !.mFraction = inFraction, !.mSubShapeID2 = inSubShapeID,
                            !.mReturnValue = TRUE, !.mVisited = Append(@, inSubShapeID) ]
    ELSE [ inVisitor EXCEPT !.mVisited = Append(@, inSubShapeID) ]

\* if (fraction < mHit.mFraction): the hit of the visitor replaced by a closer
\* hit. mVisited records the triangles handed to the visitor
AddCloserHit(inVisitor, inFraction, inSubShapeID) ==
    IF inFraction < inVisitor.mFraction
    THEN [ inVisitor EXCEPT !.mFraction = inFraction, !.mSubShapeID2 = inSubShapeID,
                            !.mReturnValue = TRUE, !.mVisited = Append(@, inSubShapeID) ]
    ELSE [ inVisitor EXCEPT !.mVisited = Append(@, inSubShapeID) ]

\* Visitor::VisitTriangle with the closer test turned around
VisitTriangle_KeepsFarther(inShape, inRay, inVisitor, inX, inY, inTriangle) ==
    AddFartherHit(inVisitor, RayTriangle(inShape, inRay, inX, inY, inTriangle),
                  EncodeSubShapeID(inShape, inX, inY, inTriangle))

\* Visitor::VisitTriangle: a closer hit replaces the hit so far
VisitTriangle(inShape, inRay, inVisitor, inX, inY, inTriangle) ==
    AddCloserHit(inVisitor, RayTriangle(inShape, inRay, inX, inY, inTriangle),
                 EncodeSubShapeID(inShape, inX, inY, inTriangle))

\* LeafTriangles for a leaf that also takes the quads behind its last row and
\* column of samples
LeafTriangles_WithBorderQuads(inShape, inX, inY) ==
    LET min_x == inX * cBlockSize
        max_x == MinOf(min_x + cBlockSize + 1, inShape.mSampleCount - 1)
        min_y == inY * cBlockSize
        max_y == MinOf(min_y + cBlockSize + 1, inShape.mSampleCount - 1)
        nx    == max_x - min_x
        ny    == max_y - min_y
        all   == [ k \in 1 .. 2 * nx * ny |->
                     [ x |-> min_x + (((k - 1) \div 2) % nx),
                       y |-> min_y + (((k - 1) \div 2) \div nx),
                       t |-> (k - 1) % 2 ] ]
        Has(e) == /\ ~IsNoCollision(inShape, e.x, e.y)
                  /\ ~IsNoCollision(inShape, e.x + 1, e.y + 1)
                  /\ IF e.t = 0 THEN ~IsNoCollision(inShape, e.x, e.y + 1)
                                ELSE ~IsNoCollision(inShape, e.x + 1, e.y)
    IN  SelectSeq(all, Has)

\* The triangles of the leaf block (inX, inY) in the order the walk visits
\* them: row by row, triangle 0 before triangle 1, leaving out every triangle
\* with a vertex without collision
LeafTriangles(inShape, inX, inY) ==
    LET min_x == inX * cBlockSize
        max_x == MinOf(min_x + cBlockSize + 1, inShape.mSampleCount) - 1
        min_y == inY * cBlockSize
        max_y == MinOf(min_y + cBlockSize + 1, inShape.mSampleCount) - 1
        nx    == max_x - min_x
        ny    == max_y - min_y
        all   == [ k \in 1 .. 2 * nx * ny |->
                     [ x |-> min_x + (((k - 1) \div 2) % nx),
                       y |-> min_y + (((k - 1) \div 2) \div nx),
                       t |-> (k - 1) % 2 ] ]
        Has(e) == /\ ~IsNoCollision(inShape, e.x, e.y)
                  /\ ~IsNoCollision(inShape, e.x + 1, e.y + 1)
                  /\ IF e.t = 0 THEN ~IsNoCollision(inShape, e.x, e.y + 1)
                                ELSE ~IsNoCollision(inShape, e.x + 1, e.y)
    IN  SelectSeq(all, Has)

RECURSIVE VisitTriangles(_, _, _, _)
VisitTriangles(inShape, inRay, inVisitor, inTriangles) ==
    IF inTriangles = << >> THEN inVisitor
    ELSE VisitTriangles(inShape, inRay,
                        VisitTriangle(inShape, inRay, inVisitor,
                                      inTriangles[1].x, inTriangles[1].y, inTriangles[1].t),
                        Tail(inTriangles))

\* One entry of mPropertiesStack / mDistanceStack
StackEntry(inLevel, inX, inY, inDistance) ==
    [ level |-> inLevel, x |-> inX, y |-> inY, distance |-> inDistance ]

\* A component that ShiftComponents4Minus fills in
ZeroEntry == StackEntry(0, 0, 0, 0)

\* The 4 children of the node (inLevel, inX, inY) with the fraction at which
\* the ray enters the bounds of each of them. The bounds of a child without
\* collision are invalid along y (mMin > mMax and mScale.y > 0); their
\* heights are not computed
ChildEntries(inShape, inRay, inMaxLevel, inLevel, inX, inY) ==
    LET block == inShape.mRangeBlocks[GridOffset(inLevel) + (Pow2(inLevel) * inY) + inX]
        internal_cell_size == cBlockSize * Pow2(inMaxLevel - inLevel - 1)
        count_min_1 == inShape.mSampleCount - 1
    IN  [ i \in 1 .. 4 |->
            LET cx == (i - 1) % 2
                cy == (i - 1) \div 2
            IN  StackEntry(inLevel + 1, (2 * inX) + cx, (2 * inY) + cy,
                    IF block.mMin[i - 1] > block.mMax[i - 1] THEN cFltMax
                    ELSE RayAABox(inRay,
                        GridPosition(inShape, 1, internal_cell_size * ((2 * inX) + cx)),
                        HeightOf(inShape, cMaxHeightValue8 * block.mMin[i - 1]),
                        GridPosition(inShape, 3, internal_cell_size * ((2 * inY) + cy)),
                        GridPosition(inShape, 1, MinOf(internal_cell_size * ((2 * inX) + cx + 1), count_min_1)),
                        HeightOf(inShape, cMaxHeightValue8 * block.mMax[i - 1]),
                        GridPosition(inShape, 3, MinOf(internal_cell_size * ((2 * inY) + cy + 1), count_min_1)))) ]

\* One comparison of Vec4::sSort4Reverse: the later component moves forward
\* when it is greater
CompareSwap(inEntries, i, j) ==
    IF inEntries[j].distance > inEntries[i].distance
    THEN [ inEntries EXCEPT ![i] = inEntries[j], ![j] = inEntries[i] ]
    ELSE inEntries

\* Vec4::sSort4Reverse: highest distance first
Sort4Reverse(inEntries) ==
    LET pass1a == CompareSwap(inEntries, 1, 3)
        pass1b == CompareSwap(pass1a, 2, 4)
        pass2a == CompareSwap(pass1b, 1, 2)
        pass2b == CompareSwap(pass2a, 3, 4)
    IN  CompareSwap(pass2b, 2, 3)

\* ShiftComponents4Minus: the last inCount components become the first
ShiftComponents4Minus(inEntries, inCount) ==
    [ i \in 1 .. 4 |-> IF i <= inCount THEN inEntries[4 - inCount + i] ELSE ZeroEntry ]

\* VisitRangeBlock without the shift: the farthest children stay in front
VisitRangeBlock_KeepsFarthest(inChildren, inFraction) ==
    LET sorted      == Sort4Reverse(inChildren)
        num_results == Cardinality({ i \in 1 .. 4 : sorted[i].distance < inFraction })
    IN  [ entries |-> sorted, num_results |-> num_results ]

\* Visitor::VisitRangeBlock: the children sorted, the closer ones in front,
\* and their number
VisitRangeBlock(inChildren, inFraction) ==
    LET sorted      == Sort4Reverse(inChildren)
        num_results == Cardinality({ i \in 1 .. 4 : sorted[i].distance < inFraction })
    IN  [ entries |-> ShiftComponents4Minus(sorted, num_results), num_results |-> num_results ]

\* Stores 4 entries at positions inTop .. inTop + 3 of the stacks
StoreInt4(inStack, inTop, inEntries) ==
    [ i \in 1 .. MaxOf(Len(inStack), inTop + 4) |->
        IF i - 1 >= inTop /\ i - 1 < inTop + 4 THEN inEntries[i - inTop] ELSE inStack[i] ]

\* Visitor::ShouldAbort
ShouldAbort(inVisitor) == inVisitor.mFraction <= 0

\* Visitor::ShouldVisitRangeBlock
ShouldVisitRangeBlock(inStack, inVisitor, inStackTop) ==
    inStack[inStackTop + 1].distance < inVisitor.mFraction

\* do --mTop; while (mTop >= 0 && !ShouldVisitRangeBlock(mTop)), entered with
\* the decremented mTop
RECURSIVE NextNode(_, _, _)
NextNode(inStack, inVisitor, inTop) ==
    IF inTop >= 0 /\ ~ShouldVisitRangeBlock(inStack, inVisitor, inTop)
    THEN NextNode(inStack, inVisitor, inTop - 1)
    ELSE inTop

\* properties.StoreInt4(&mPropertiesStack[mTop]); mTop += num_results
PushChildren(inContext, inResults) ==
    [ inContext EXCEPT
        !.mStack = StoreInt4(@, inContext.mTop, inResults.entries),
        !.mTop = @ + inResults.num_results,
        !.mMaxTop = MaxOf(@, inContext.mTop + inResults.num_results) ]

\* The walk enters the body of its loop for inNode: mNodes records the node,
\* its entry of mDistanceStack, the fraction of the hit so far and whether the
\* visitor reported ShouldAbort at that time
EnterNode(inContext, inNode) ==
    [ inContext EXCEPT
        !.mNodes = Append(@, [ level |-> inNode.level, x |-> inNode.x, y |-> inNode.y,
                               top |-> inContext.mTop,
                               distance |-> inNode.distance,
                               fraction |-> inContext.mVisitor.mFraction,
                               aborted |-> ShouldAbort(inContext.mVisitor) ]) ]

\* The body of the loop of WalkHeightField up to the test of ShouldAbort: the
\* triangles of a leaf are visited, the children of another node are pushed.
\* mMaxTop records the highest mTop
VisitNode(inShape, inRay, inContext, inMaxLevel, inNode) ==
    IF inNode.level >= inMaxLevel
    THEN [ inContext EXCEPT
             !.mVisitor = VisitTriangles(inShape, inRay, @,
                                         LeafTriangles(inShape, inNode.x, inNode.y)) ]
    ELSE PushChildren(inContext,
                      VisitRangeBlock(
                          ChildEntries(inShape, inRay, inMaxLevel, inNode.level, inNode.x, inNode.y),
                          inContext.mVisitor.mFraction))

RECURSIVE WalkHeightField(_, _, _)

\* WalkFrom without the test of ShouldAbort
WalkFrom_NeverAborts(inShape, inRay, inVisited) ==
    IF NextNode(inVisited.mStack, inVisited.mVisitor, inVisited.mTop - 1) >= 0
    THEN WalkHeightField(inShape, inRay,
             [ inVisited EXCEPT !.mTop = NextNode(inVisited.mStack, inVisited.mVisitor, @ - 1) ])
    ELSE [ inVisited EXCEPT !.mTop = NextNode(inVisited.mStack, inVisited.mVisitor, @ - 1) ]

\* The end of the body of the loop: stop when the visitor aborts, else go on
\* with the next node the visitor wants to see
WalkFrom(inShape, inRay, inVisited) ==
    IF ShouldAbort(inVisited.mVisitor) THEN inVisited
    ELSE IF NextNode(inVisited.mStack, inVisited.mVisitor, inVisited.mTop - 1) >= 0
    THEN WalkHeightField(inShape, inRay,
             [ inVisited EXCEPT !.mTop = NextNode(inVisited.mStack, inVisited.mVisitor, @ - 1) ])
    ELSE [ inVisited EXCEPT !.mTop = NextNode(inVisited.mStack, inVisited.mVisitor, @ - 1) ]

\* DecodingContext::WalkHeightField: the loop from the node at mTop until the
\* visitor aborts or the stack is empty
WalkHeightField(inShape, inRay, inContext) ==
    WalkFrom(inShape, inRay,
             VisitNode(inShape, inRay, EnterNode(inContext, inContext.mStack[inContext.mTop + 1]),
                       CountTrailingZeros(inShape.mSampleCount \div cBlockSize),
                       inContext.mStack[inContext.mTop + 1]))

\* DecodingContext::DecodingContext: the root on the stack
DecodingContext(inVisitor) ==
    [ mStack |-> << ZeroEntry >>, mTop |-> 0, mMaxTop |-> 0, mVisitor |-> inVisitor,
      mNodes |-> << >> ]

\* What a walk with the ray cast visitor leaves behind
CastRayResult(inContext) ==
    [ hit      |-> [ mFraction |-> inContext.mVisitor.mFraction,
                     mSubShapeID2 |-> inContext.mVisitor.mSubShapeID2 ],
      returned |-> inContext.mVisitor.mReturnValue,
      visited  |-> inContext.mVisitor.mVisited,
      mTop     |-> inContext.mTop,
      mMaxTop  |-> inContext.mMaxTop,
      nodes    |-> inContext.mNodes ]

\* HeightFieldShape::CastRay: the hit and the return value after the walk
CastRay(inShape, inRay, inHit) ==
    CastRayResult(WalkHeightField(inShape, inRay,
                      DecodingContext([ mFraction |-> inHit.mFraction, mSubShapeID2 |-> inHit.mSubShapeID2,
                                        mReturnValue |-> FALSE, mVisited |-> << >> ])))

-----------------------------------------------------------------------------
(* HeightFieldShape::SaveBinaryState / RestoreBinaryState. The stream is a  *)
(* sequence of cells, one per float or integer written; an array is written *)
(* as its size followed by its elements                                     *)

\* StreamOut::Write of one float or integer
WriteValue(inStream, inValue) == Append(inStream, inValue)

\* StreamOut::Write of a Vec3: its 3 components
WriteVec3(inStream, inVec3) == inStream \o << inVec3[1], inVec3[2], inVec3[3] >>

\* StreamOut::Write of a vector of bytes
WriteArray(inStream, inArray) ==
    (inStream \o << Len0(inArray) >>) \o [ i \in 1 .. Len0(inArray) |-> inArray[i - 1] ]

\* StreamOut::Write of the vector of range blocks: per block mMin[0 .. 3] and
\* mMax[0 .. 3]
WriteRangeBlocks(inStream, inBlocks) ==
    (inStream \o << Len0(inBlocks) >>)
        \o [ i \in 1 .. 8 * Len0(inBlocks) |->
               IF (i - 1) % 8 < 4 THEN inBlocks[(i - 1) \div 8].mMin[(i - 1) % 8]
                                  ELSE inBlocks[(i - 1) \div 8].mMax[((i - 1) % 8) - 4] ]

\* Shape::SaveBinaryState: the state of the base class, the user data
ShapeSaveBinaryState(inStream) == WriteValue(inStream, 0)

\* HeightFieldShape::SaveBinaryState
SaveBinaryState(inShape, inStream) ==
    WriteValue(
      WriteArray(
        WriteArray(
          WriteArray(
            WriteRangeBlocks(
              WriteValue(
                WriteValue(
                  WriteValue(
                    WriteVec3(
                      WriteVec3(ShapeSaveBinaryState(inStream), inShape.mOffset),
                      inShape.mScale),
                    inShape.mSampleCount),
                  inShape.mMinSample),
                inShape.mMaxSample),
              inShape.mRangeBlocks),
            inShape.mHeightSamples),
          inShape.mActiveEdges),
        inShape.mMaterialIndices),
      inShape.mNumBitsPerMaterialIndex)

\* A reader: the cells not yet read and the object being restored
Reader(inStream, inObject) == [ in |-> inStream, obj |-> inObject ]

\* The cells of inStream from position inFrom on
Rest(inStream, inFrom) == SubSeq(inStream, inFrom, Len(inStream))

\* StreamIn::Read of one float or integer into field inField
ReadValue(inReader, inField) ==
    Reader(Tail(inReader.in), [ inReader.obj EXCEPT ![inField] = Head(inReader.in) ])

\* StreamIn::Read of a Vec3
ReadVec3(inReader, inField) ==
    Reader(Rest(inReader.in, 4),
           [ inReader.obj EXCEPT ![inField] = << inReader.in[1], inReader.in[2], inReader.in[3] >> ])

\* StreamIn::Read of a vector of bytes
ReadArray(inReader, inField) ==
    Reader(Rest(inReader.in, Head(inReader.in) + 2),
           [ inReader.obj EXCEPT ![inField] = [ i \in 0 .. Head(inReader.in) - 1 |-> inReader.in[i + 2] ] ])

\* StreamIn::Read of the vector of range blocks
ReadRangeBlocks(inReader, inField) ==
    Reader(Rest(inReader.in, (8 * Head(inReader.in)) + 2),
           [ inReader.obj EXCEPT ![inField] =
               [ i \in 0 .. Head(inReader.in) - 1 |->
                   [ mMin |-> [ d \in 0 .. 3 |-> inReader.in[(8 * i) + d + 2] ],
                     mMax |-> [ d \in 0 .. 3 |-> inReader.in[(8 * i) + d + 6] ] ] ] ])

\* Shape::RestoreBinaryState: the state of the base class is read
ShapeRestoreBinaryState(inReader) == Reader(Tail(inReader.in), inReader.obj)

\* A default constructed HeightFieldShape
FreshShape ==
    [ mOffset      |-> << 0, 0, 0 >>,
      mScale       |-> << Rational(1, 1), Rational(1, 1), Rational(1, 1) >>,
      mMaterials   |-> EmptyArray,
      mSampleCount |-> 0,
      mMinSample   |-> 0,
      mMaxSample   |-> 0,
      mRangeBlocks |-> EmptyArray,
      mHeightSamples |-> EmptyArray,
      mActiveEdges |-> EmptyArray,
      mMaterialIndices |-> EmptyArray,
      mNumBitsPerMaterialIndex |-> 0 ]

\* RestoreBinaryState reading mMaxSample before mMinSample
RestoreBinaryState_MaxBeforeMin(inObject, inStream) ==
    ReadValue(
      ReadArray(
        ReadArray(
          ReadArray(
            ReadRangeBlocks(
              ReadValue(
                ReadValue(
                  ReadValue(
                    ReadVec3(
                      ReadVec3(ShapeRestoreBinaryState(Reader(inStream, inObject)), "mOffset"),
                      "mScale"),
                    "mSampleCount"),
                  "mMaxSample"),
                "mMinSample"),
              "mRangeBlocks"),
            "mHeightSamples"),
          "mActiveEdges"),
        "mMaterialIndices"),
      "mNumBitsPerMaterialIndex").obj

\* HeightFieldShape::RestoreBinaryState
RestoreBinaryState(inObject, inStream) ==
    ReadValue(
      ReadArray(
        ReadArray(
          ReadArray(
            ReadRangeBlocks(
              ReadValue(
                ReadValue(
                  ReadValue(
                    ReadVec3(
                      ReadVec3(ShapeRestoreBinaryState(Reader(inStream, inObject)), "mOffset"),
                      "mScale"),
                    "mSampleCount"),
                  "mMinSample"),
                "mMaxSample"),
              "mRangeBlocks"),
            "mHeightSamples"),
          "mActiveEdges"),
        "mMaterialIndices"),
      "mNumBitsPerMaterialIndex").obj

-----------------------------------------------------------------------------
(* Vectors of rational numbers                                              *)

Abs(a) == IF a < 0 THEN -a ELSE a

RECURSIVE GCD(_, _)
GCD(a, b) == IF b = 0 THEN a ELSE GCD(b, a % b)

\* The fraction in lowest terms with a positive denominator
Normalized(inNum, inDen) ==
    Rational((IF inDen < 0 THEN -inNum ELSE inNum) \div GCD(Abs(inNum), Abs(inDen)),
             Abs(inDen) \div GCD(Abs(inNum), Abs(inDen)))

RationalMul(a, b) == Normalized(a.num * b.num, a.den * b.den)
RationalReciprocal(a) == Normalized(a.den, a.num)

Vec3(inX, inY, inZ) == << Rational(inX, 1), Rational(inY, 1), Rational(inZ, 1) >>

\* Vec3::operator *: component wise
Vec3Mul(a, b) == << RationalMul(a[1], b[1]), RationalMul(a[2], b[2]), RationalMul(a[3], b[3]) >>

\* Vec3::Reciprocal: component wise
Vec3Reciprocal(a) == << RationalReciprocal(a[1]), RationalReciprocal(a[2]), RationalReciprocal(a[3]) >>

-----------------------------------------------------------------------------
(* ScaledShape: the queries it forwards to its inner shape. A request ends  *)
(* in the call of a function of a shape that is not a ScaledShape; the      *)
(* model records this call with its arguments                               *)

\* EShapeType; "User" is a type the dispatch does not know
LeafTypes == { "Convex", "Mesh", "HeightField", "StaticCompound", "MutableCompound",
               "RotatedTranslated", "OffsetCenterOfMass", "User" }

LeafShape(inType) == [ type |-> inType ]

ScaledShape(inInnerShape, inScale) ==
    [ type |-> "Scaled", mInnerShape |-> inInnerShape, mScale |-> inScale ]

\* A default constructed SubShapeIDCreator
EmptyCreator == "SubShapeIDCreator()"

\* ScaledShape::CastRay (both overloads) handing a default constructed sub
\* shape ID creator to the inner shape
RECURSIVE ShapeCastRay_FreshCreator(_, _, _, _)
ShapeCastRay_FreshCreator(inFn, inShape, inRay, inSubShapeIDCreator) ==
    IF inShape.type = "Scaled"
    THEN ShapeCastRay_FreshCreator(inFn, inShape.mInnerShape,
                      [ mOrigin    |-> Vec3Mul(Vec3Reciprocal(inShape.mScale), inRay.mOrigin),
                        mDirection |-> Vec3Mul(Vec3Reciprocal(inShape.mScale), inRay.mDirection) ],
                      EmptyCreator)
    ELSE [ fn |-> inFn, shape |-> inShape, ray |-> inRay, creator |-> inSubShapeIDCreator ]

\* Shape::CastRay (both overloads, inFn names the overload): ScaledShape scales
\* the ray by the reciprocal of its scale and casts it against its inner shape
RECURSIVE ShapeCastRay(_, _, _, _)
ShapeCastRay(inFn, inShape, inRay, inSubShapeIDCreator) ==
    IF inShape.type = "Scaled"
    THEN ShapeCastRay(inFn, inShape.mInnerShape,
                      [ mOrigin    |-> Vec3Mul(Vec3Reciprocal(inShape.mScale), inRay.mOrigin),
                        mDirection |-> Vec3Mul(Vec3Reciprocal(inShape.mScale), inRay.mDirection) ],
                      inSubShapeIDCreator)
    ELSE [ fn |-> inFn, shape |-> inShape, ray |-> inRay, creator |-> inSubShapeIDCreator ]

\* Shape::CollidePoint
RECURSIVE ShapeCollidePoint(_, _, _)
ShapeCollidePoint(inShape, inPoint, inSubShapeIDCreator) ==
    IF inShape.type = "Scaled"
    THEN ShapeCollidePoint(inShape.mInnerShape, Vec3Mul(Vec3Reciprocal(inShape.mScale), inPoint),
                           inSubShapeIDCreator)
    ELSE [ fn |-> "CollidePoint", shape |-> inShape, point |-> inPoint, creator |-> inSubShapeIDCreator ]

\* Shape::CastShape: ScaledShape multiplies the scale by its own. inArgs holds
\* the arguments handed on unchanged: the settings, the shape filter, the
\* center of mass transform, both sub shape ID creators and the collector
RECURSIVE ShapeCastShape(_, _, _, _)
ShapeCastShape(inShapeCast, inShape, inScale, inArgs) ==
    IF inShape.type = "Scaled"
    THEN ShapeCastShape(inShapeCast, inShape.mInnerShape, Vec3Mul(inScale, inShape.mScale), inArgs)
    ELSE [ fn |-> "CastShape", shape |-> inShape, shapeCast |-> inShapeCast, scale |-> inScale,
           args |-> inArgs ]

\* Shape::CollectTransformedShapes: ScaledShape multiplies the scale by its
\* own. inArgs holds the arguments handed on unchanged: the box, the position,
\* the rotation, the sub shape ID creator and the collector
RECURSIVE ShapeCollectTransformedShapes(_, _, _)
ShapeCollectTransformedShapes(inShape, inScale, inArgs) ==
    IF inShape.type = "Scaled"
    THEN ShapeCollectTransformedShapes(inShape.mInnerShape, Vec3Mul(inScale, inShape.mScale), inArgs)
    ELSE [ fn |-> "CollectTransformedShapes", shape |-> inShape, scale |-> inScale, args |-> inArgs ]

-----------------------------------------------------------------------------
(* CollisionDispatch                                                        *)

\* The call of a collide function outside the dispatch, or its assert
CollideCall(inFn, inShape1, inShape2, inScale1, inScale2, inArgs) ==
    [ fn |-> inFn, shape1 |-> inShape1, shape2 |-> inShape2,
      scale1 |-> inScale1, scale2 |-> inScale2, args |-> inArgs ]

\* sCollideShapeVsShape handing the scale of a scaled first shape on in place of
\* the product with the incoming scale
RECURSIVE sCollideShapeVsShape_ReplacesScale(_, _, _, _, _)
sCollideShapeVsShape_ReplacesScale(inShape1, inShape2, inScale1, inScale2, inArgs) ==
    CASE inShape1.type = "Convex" ->
            ( CASE inShape2.type = "Convex" ->
                      CollideCall("sCollideConvexVsConvex", inShape1, inShape2, inScale1, inScale2, inArgs)
                [] inShape2.type = "Mesh" ->
                      CollideCall("sCollideConvexVsMesh", inShape1, inShape2, inScale1, inScale2, inArgs)
                [] inShape2.type = "HeightField" ->
                      CollideCall("sCollideConvexVsHeightField", inShape1, inShape2, inScale1, inScale2, inArgs)
                [] inShape2.type \in {"StaticCompound", "MutableCompound"} ->
                      CollideCall("sCollideShapeVsCompound", inShape1, inShape2, inScale1, inScale2, inArgs)
                [] inShape2.type = "Scaled" ->
                      sCollideShapeVsShape_ReplacesScale(inShape1, inShape2.mInnerShape, inScale1,
                                           Vec3Mul(inScale2, inShape2.mScale), inArgs)
                [] inShape2.type = "RotatedTranslated" ->
                      CollideCall("sCollideShapeVsRotatedTranslated", inShape1, inShape2, inScale1, inScale2, inArgs)
                [] inShape2.type = "OffsetCenterOfMass" ->
                      CollideCall("sCollideShapeVsOffsetCenterOfMassShape", inShape1, inShape2, inScale1, inScale2, inArgs)
                [] OTHER -> NothingReceived )
      [] inShape1.type \in {"Mesh", "HeightField"} ->
            [ fn |-> "JPH_ASSERT", message |-> "Mesh / height field shapes cannot be dynamic, ignoring!" ]
      [] inShape1.type \in {"StaticCompound", "MutableCompound"} ->
            CollideCall("sCollideCompoundVsShape", inShape1, inShape2, inScale1, inScale2, inArgs)
      [] inShape1.type = "Scaled" ->
            sCollideShapeVsShape_ReplacesScale(inShape1.mInnerShape, inShape2,
                                 inShape1.mScale, inScale2, inArgs)
      [] inShape1.type = "RotatedTranslated" ->
            CollideCall("sCollideRotatedTranslatedVsShape", inShape1, inShape2, inScale1, inScale2, inArgs)
      [] inShape1.type = "OffsetCenterOfMass" ->
            CollideCall("sCollideOffsetCenterOfMassShapeVsShape", inShape1, inShape2, inScale1, inScale2, inArgs)
      [] OTHER -> [ fn |-> "JPH_ASSERT", message |-> "" ]

\* CollisionDispatch::sCollideShapeVsShape. inArgs holds the arguments every
\* case hands on unchanged: both center of mass transforms, both sub shape ID
\* creators, the settings and the collector
RECURSIVE sCollideShapeVsShape(_, _, _, _, _)
sCollideShapeVsShape(inShape1, inShape2, inScale1, inScale2, inArgs) ==
    CASE inShape1.type = "Convex" ->
            ( CASE inShape2.type = "Convex" ->
                      CollideCall("sCollideConvexVsConvex", inShape1, inShape2, inScale1, inScale2, inArgs)
                [] inShape2.type = "Mesh" ->
                      CollideCall("sCollideConvexVsMesh", inShape1, inShape2, inScale1, inScale2, inArgs)
                [] inShape2.type = "HeightField" ->
                      CollideCall("sCollideConvexVsHeightField", inShape1, inShape2, inScale1, inScale2, inArgs)
                [] inShape2.type \in {"StaticCompound", "MutableCompound"} ->
                      CollideCall("sCollideShapeVsCompound", inShape1, inShape2, inScale1, inScale2, inArgs)
                [] inShape2.type = "Scaled" ->
                      sCollideShapeVsShape(inShape1, inShape2.mInnerShape, inScale1,
                                           Vec3Mul(inScale2, inShape2.mScale), inArgs)
                [] inShape2.type = "RotatedTranslated" ->
                      CollideCall("sCollideShapeVsRotatedTranslated", inShape1, inShape2, inScale1, inScale2, inArgs)
                [] inShape2.type = "OffsetCenterOfMass" ->
                      CollideCall("sCollideShapeVsOffsetCenterOfMassShape", inShape1, inShape2, inScale1, inScale2, inArgs)
                [] OTHER -> NothingReceived )
      [] inShape1.type \in {"Mesh", "HeightField"} ->
            [ fn |-> "JPH_ASSERT", message |-> "Mesh / height field shapes cannot be dynamic, ignoring!" ]
      [] inShape1.type \in {"StaticCompound", "MutableCompound"} ->
            CollideCall("sCollideCompoundVsShape", inShape1, inShape2, inScale1, inScale2, inArgs)
      [] inShape1.type = "Scaled" ->
            sCollideShapeVsShape(inShape1.mInnerShape, inShape2,
                                 Vec3Mul(inScale1, inShape1.mScale), inScale2, inArgs)
      [] inShape1.type = "RotatedTranslated" ->
            CollideCall("sCollideRotatedTranslatedVsShape", inShape1, inShape2, inScale1, inScale2, inArgs)
      [] inShape1.type = "OffsetCenterOfMass" ->
            CollideCall("sCollideOffsetCenterOfMassShapeVsShape", inShape1, inShape2, inScale1, inScale2, inArgs)
      [] OTHER -> [ fn |-> "JPH_ASSERT", message |-> "" ]

\* ShapeCast::ShapeCast
ShapeCast(inShape, inScale, inCenterOfMassStart, inDirection) ==
    [ mShape |-> inShape, mScale |-> inScale,
      mCenterOfMassStart |-> inCenterOfMassStart, mDirection |-> inDirection ]

\* The call of a cast function outside the dispatch
CastCall(inFn, inShapeCast, inShape, inScale, inArgs) ==
    [ fn |-> inFn, shapeCast |-> inShapeCast, shape |-> inShape, scale |-> inScale, args |-> inArgs ]

\* sCastShapeVsShape with the mesh and height field labels on the convex case
RECURSIVE sCastShapeVsShape_MeshAsConvex(_, _, _, _)
sCastShapeVsShape_MeshAsConvex(inShapeCast, inShape, inScale, inArgs) ==
    IF ~inArgs.filter THEN NothingReceived
    ELSE CASE inShapeCast.mShape.type \in {"StaticCompound", "MutableCompound"} ->
                 CastCall("sCastCompoundShapeVsShape", inShapeCast, inShape, inScale, inArgs)
           [] inShapeCast.mShape.type \in {"Convex", "Mesh", "HeightField"} ->
                 ShapeCastShape(inShapeCast, inShape, inScale, inArgs)
           [] inShapeCast.mShape.type = "Scaled" ->
                 sCastShapeVsShape_MeshAsConvex(
                     ShapeCast(inShapeCast.mShape.mInnerShape,
                               Vec3Mul(inShapeCast.mScale, inShapeCast.mShape.mScale),
                               inShapeCast.mCenterOfMassStart, inShapeCast.mDirection),
                     inShape, inScale, inArgs)
           [] inShapeCast.mShape.type = "RotatedTranslated" ->
                 CastCall("sCastRotatedTranslatedShapeVsShape", inShapeCast, inShape, inScale, inArgs)
           [] inShapeCast.mShape.type = "OffsetCenterOfMass" ->
                 CastCall("sCastOffsetCenterOfMassShapeVsShape", inShapeCast, inShape, inScale, inArgs)
           [] OTHER -> [ fn |-> "JPH_ASSERT", message |-> "" ]

\* sCastShapeVsShape without the test of the shape filter
RECURSIVE sCastShapeVsShape_NoShapeFilter(_, _, _, _)
sCastShapeVsShape_NoShapeFilter(inShapeCast, inShape, inScale, inArgs) ==
    CASE inShapeCast.mShape.type \in {"StaticCompound", "MutableCompound"} ->
            CastCall("sCastCompoundShapeVsShape", inShapeCast, inShape, inScale, inArgs)
      [] inShapeCast.mShape.type = "Convex" ->
            ShapeCastShape(inShapeCast, inShape, inScale, inArgs)
      [] inShapeCast.mShape.type \in {"Mesh", "HeightField"} ->
            [ fn |-> "JPH_ASSERT", message |-> "Cannot cast a mesh / height field, ignoring!" ]
      [] inShapeCast.mShape.type = "Scaled" ->
            sCastShapeVsShape_NoShapeFilter(
                ShapeCast(inShapeCast.mShape.mInnerShape,
                          Vec3Mul(inShapeCast.mScale, inShapeCast.mShape.mScale),
                          inShapeCast.mCenterOfMassStart, inShapeCast.mDirection),
                inShape, inScale, inArgs)
      [] inShapeCast.mShape.type = "RotatedTranslated" ->
            CastCall("sCastRotatedTranslatedShapeVsShape", inShapeCast, inShape, inScale, inArgs)
      [] inShapeCast.mShape.type = "OffsetCenterOfMass" ->
            CastCall("sCastOffsetCenterOfMassShapeVsShape", inShapeCast, inShape, inScale, inArgs)
      [] OTHER -> [ fn |-> "JPH_ASSERT", message |-> "" ]

\* CollisionDispatch::sCastShapeVsShape. inArgs holds the arguments handed on
\* unchanged: the shape filter with its verdict for the two sub shape IDs, the
\* center of mass transform and both sub shape ID creators
RECURSIVE sCastShapeVsShape(_, _, _, _)
sCastShapeVsShape(inShapeCast, inShape, inScale, inArgs) ==
    IF ~inArgs.filter THEN NothingReceived
    ELSE CASE inShapeCast.mShape.type \in {"StaticCompound", "MutableCompound"} ->
                 CastCall("sCastCompoundShapeVsShape", inShapeCast, inShape, inScale, inArgs)
           [] inShapeCast.mShape.type = "Convex" ->
                 ShapeCastShape(inShapeCast, inShape, inScale, inArgs)
           [] inShapeCast.mShape.type \in {"Mesh", "HeightField"} ->
                 [ fn |-> "JPH_ASSERT", message |-> "Cannot cast a mesh / height field, ignoring!" ]
           [] inShapeCast.mShape.type = "Scaled" ->
                 sCastShapeVsShape(ShapeCast(inShapeCast.mShape.mInnerShape,
                                             Vec3Mul(inShapeCast.mScale, inShapeCast.mShape.mScale),
                                             inShapeCast.mCenterOfMassStart, inShapeCast.mDirection),
                                   inShape, inScale, inArgs)
           [] inShapeCast.mShape.type = "RotatedTranslated" ->
                 CastCall("sCastRotatedTranslatedShapeVsShape", inShapeCast, inShape, inScale, inArgs)
           [] inShapeCast.mShape.type = "OffsetCenterOfMass" ->
                 CastCall("sCastOffsetCenterOfMassShapeVsShape", inShapeCast, inShape, inScale, inArgs)
           [] OTHER -> [ fn |-> "JPH_ASSERT", message |-> "" ]

-----------------------------------------------------------------------------
(* HeightFieldShapeSettings::Create                                         *)

InitHeightField ==
    /\ InitLockVars
    /\ InitDispatchVars
    /\ InitNarrowPhaseVars
    /\ cBlockSize \in BlockSizes
    /\ settings \in SettingsInputs(cBlockSize)
    /\ result = EmptyResult
    /\ shape = NoShape
    /\ query = NoQuery
    /\ stream = << >>
    /\ restored = NoShape

\* Create(): constructs the shape when the cached result is empty; the
\* constructor sets the result to an error or to the shape
Create ==
    /\ result.state = "empty"
    /\ LET err == ConstructionError(settings)
       IN  IF err # NoError
           THEN /\ result' = [ state |-> "error", error |-> err ]
                /\ shape' = NoShape
           ELSE /\ result' = [ state |-> "shape", error |-> NoError ]
                /\ shape' = BuildShape(settings)
    /\ UNCHANGED <<cBlockSize, settings, query, stream, restored>>
    /\ UNCHANGED <<dispatchVars, npqVars, lockVars>>

\* SaveBinaryState of the constructed shape into an empty stream
CallSaveBinaryState ==
    /\ result.state = "shape"
    /\ stream = << >>
    /\ stream' = SaveBinaryState(shape, stream)
    /\ UNCHANGED <<cBlockSize, settings, result, shape, query, restored>>
    /\ UNCHANGED <<dispatchVars, npqVars, lockVars>>

\* RestoreBinaryState of a default constructed shape from the stream
CallRestoreBinaryState ==
    /\ stream # << >>
    /\ restored = NoShape
    /\ restored' = RestoreBinaryState(FreshShape, stream)
    /\ UNCHANGED <<cBlockSize, settings, result, shape, query, stream>>
    /\ UNCHANGED <<dispatchVars, npqVars, lockVars>>

NextHeightField ==
    \/ Create
    \/ CallSaveBinaryState
    \/ CallRestoreBinaryState

SpecHeightField == InitHeightField /\ [][NextHeightField]_vars


-----------------------------------------------------------------------------
(* HeightFieldShape::ProjectOntoSurface                                     *)

\* ProjectOntoSurface with the triangles of the quad exchanged
ProjectOntoSurface_OtherTriangle(inShape, inLocalPosition) ==
    LET x_int == (inLocalPosition[1] - (4 * inShape.mOffset[1])) \div inShape.mScale[1].num
        y_int == (inLocalPosition[3] - (4 * inShape.mOffset[3])) \div inShape.mScale[3].num
        x      == x_int \div 4
        y      == y_int \div 4
        x_frac == x_int % 4
        y_frac == y_int % 4
        Found(inTriangle) ==
            [ returned |-> TRUE,
              outSurfacePosition |-> << inLocalPosition[1],
                                        TriangleHeightAt(inShape, x, y, inTriangle, x_frac, y_frac),
                                        inLocalPosition[3] >>,
              outSubShapeID |-> EncodeSubShapeID(inShape, x, y, inTriangle) ]
        NotFound == [ returned |-> FALSE ]
    IN  IF x_int < 0 \/ x_int >= 4 * (inShape.mSampleCount - 1) THEN NotFound
        ELSE IF y_int < 0 \/ y_int >= 4 * (inShape.mSampleCount - 1) THEN NotFound
        ELSE IF IsNoCollision(inShape, x, y) \/ IsNoCollision(inShape, x + 1, y + 1) THEN NotFound
        ELSE IF y_frac > x_frac
             THEN IF IsNoCollision(inShape, x, y + 1) THEN NotFound ELSE Found(0)
             ELSE IF IsNoCollision(inShape, x + 1, y) THEN NotFound ELSE Found(1)

\* The position is given in quarters of a sample distance along x and z
ProjectOntoSurface(inShape, inLocalPosition) ==
    LET x_int == (inLocalPosition[1] - (4 * inShape.mOffset[1])) \div inShape.mScale[1].num
        y_int == (inLocalPosition[3] - (4 * inShape.mOffset[3])) \div inShape.mScale[3].num
        x      == x_int \div 4
        y      == y_int \div 4
        x_frac == x_int % 4
        y_frac == y_int % 4
        Found(inTriangle) ==
            [ returned |-> TRUE,
              outSurfacePosition |-> << inLocalPosition[1],
                                        TriangleHeightAt(inShape, x, y, inTriangle, x_frac, y_frac),
                                        inLocalPosition[3] >>,
              outSubShapeID |-> EncodeSubShapeID(inShape, x, y, inTriangle) ]
        NotFound == [ returned |-> FALSE ]
    IN  IF x_int < 0 \/ x_int >= 4 * (inShape.mSampleCount - 1) THEN NotFound
        ELSE IF y_int < 0 \/ y_int >= 4 * (inShape.mSampleCount - 1) THEN NotFound
        ELSE IF IsNoCollision(inShape, x, y) \/ IsNoCollision(inShape, x + 1, y + 1) THEN NotFound
        ELSE IF y_frac >= x_frac
             THEN IF IsNoCollision(inShape, x, y + 1) THEN NotFound ELSE Found(0)
             ELSE IF IsNoCollision(inShape, x + 1, y) THEN NotFound ELSE Found(1)


-----------------------------------------------------------------------------
(* SubShapeID and SubShapeIDCreator: the 32 bits of mValue are held as a    *)
(* sequence of bits, the lowest bit first                                   *)

\* The lowest inCount bits of the unsigned value inValue
RECURSIVE BitsOf(_, _)
BitsOf(inValue, inCount) ==
    IF inCount = 0 THEN << >>
    ELSE << inValue % 2 >> \o BitsOf(inValue \div 2, inCount - 1)

\* The value of the bits inBits
RECURSIVE ValueOf(_)
ValueOf(inBits) ==
    IF inBits = << >> THEN 0 ELSE inBits[1] + (2 * ValueOf(Tail(inBits)))

\* SubShapeID(): cEmpty, all bits set
EmptySubShapeID == [ i \in 1 .. SubShapeIDMaxBits |-> 1 ]

\* SubShapeIDCreator()
NewSubShapeIDCreator == [ mID |-> EmptySubShapeID, mCurrentBit |-> 0 ]

\* SubShapeIDCreator::PushID:
\* mValue = (mValue & ~(((1 << inBits) - 1) << mCurrentBit)) | (inValue << mCurrentBit)
PushID(inCreator, inValue, inBits) ==
    LET shifted == BitsOf(inValue, SubShapeIDMaxBits - inCreator.mCurrentBit)
    IN  [ mID |-> [ i \in 1 .. SubShapeIDMaxBits |->
                      IF i - 1 < inCreator.mCurrentBit THEN inCreator.mID[i]
                      ELSE IF i - 1 < inCreator.mCurrentBit + inBits
                      THEN shifted[i - inCreator.mCurrentBit]
                      ELSE MaxOf(inCreator.mID[i], shifted[i - inCreator.mCurrentBit]) ],
          mCurrentBit |-> inCreator.mCurrentBit + inBits ]

\* SubShapeID::PopID: the lowest inBits bits as a value; the remainder is the
\* ID shifted down and filled up with set bits
PopID(inSubShapeID, inBits) ==
    [ id        |-> ValueOf(SubSeq(inSubShapeID, 1, inBits)),
      remainder |-> [ i \in 1 .. SubShapeIDMaxBits |->
                        IF i + inBits <= SubShapeIDMaxBits THEN inSubShapeID[i + inBits] ELSE 1 ] ]

\* HeightFieldShape::EncodeSubShapeID with a creator: GetID() of the creator
\* after PushID
EncodeSubShapeIDWith(inShape, inCreator, inX, inY, inTriangle) ==
    PushID(inCreator, EncodeSubShapeID(inShape, inX, inY, inTriangle),
           GetSubShapeIDBitsOf(inShape.mSampleCount)).mID

\* HeightFieldShape::DecodeSubShapeID
DecodeSubShapeID(inShape, inSubShapeID) ==
    LET popped == PopID(inSubShapeID, GetSubShapeIDBitsOf(inShape.mSampleCount))
    IN  [ outTriangle |-> popped.id % 2,
          outX        |-> (popped.id \div 2) % inShape.mSampleCount,
          outY        |-> (popped.id \div 2) \div inShape.mSampleCount,
          remainder   |-> popped.remainder ]

\* EncodeSubShapeID with an empty creator followed by DecodeSubShapeID, for
\* any x, y below the sample count
CallDecodeSubShapeID ==
    /\ result.state = "shape"
    /\ query = NoQuery
    /\ \E x, y \in 0 .. shape.mSampleCount - 1, t \in 0 .. 1 :
          query' = [ op |-> "DecodeSubShapeID", x |-> x, y |-> y, t |-> t,
                     id |-> EncodeSubShapeIDWith(shape, NewSubShapeIDCreator, x, y, t),
                     out |-> DecodeSubShapeID(shape,
                                 EncodeSubShapeIDWith(shape, NewSubShapeIDCreator, x, y, t)) ]
    /\ UNCHANGED <<cBlockSize, settings, result, shape, stream, restored>>
    /\ UNCHANGED <<dispatchVars, npqVars, lockVars>>


-----------------------------------------------------------------------------
(* HeightFieldShape::GetEdgeFlags                                           *)

\* GetEdgeFlags for triangle 0: the 3 bits stored at bit 3 * (inX + inY *
\* (mSampleCount - 1)) of mActiveEdges
StoredEdgeFlags(inShape, inX, inY) ==
    (ReadWord(inShape.mActiveEdges, (3 * (inX + (inY * (inShape.mSampleCount - 1)))) \div 8)
        \div Pow2((3 * (inX + (inY * (inShape.mSampleCount - 1)))) % 8)) % 8

\* HeightFieldShape::GetEdgeFlags: the flags of triangle 1 are put together
\* from the stored flags of the quad and of its neighbours
GetEdgeFlags(inShape, inX, inY, inTriangle) ==
    IF inTriangle = 0 THEN StoredEdgeFlags(inShape, inX, inY)
    ELSE (IF BitAnd(StoredEdgeFlags(inShape, inX, inY), 4) # 0 THEN 1 ELSE 0)
         + (IF inX = inShape.mSampleCount - 1
                  \/ BitAnd(StoredEdgeFlags(inShape, inX + 1, inY), 1) # 0 THEN 2 ELSE 0)
         + (IF inY = 0 \/ BitAnd(StoredEdgeFlags(inShape, inX, inY - 1), 2) # 0 THEN 4 ELSE 0)

\* The positions (x, y) whose stored flags GetEdgeFlags reads
EdgeFlagsRead(inShape, inX, inY, inTriangle) ==
    IF inTriangle = 0 THEN { << inX, inY >> }
    ELSE { << inX, inY >> }
             \cup (IF inX = inShape.mSampleCount - 1 THEN {} ELSE { << inX + 1, inY >> })
             \cup (IF inY = 0 THEN {} ELSE { << inX, inY - 1 >> })

\* One call of GetEdgeFlags for a triangle of the constructed shape
CallGetEdgeFlags ==
    /\ result.state = "shape"
    /\ query = NoQuery
    /\ \E x, y \in 0 .. shape.mSampleCount - 2, t \in 0 .. 1 :
          query' = [ op |-> "GetEdgeFlags", x |-> x, y |-> y, t |-> t,
                     read |-> EdgeFlagsRead(shape, x, y, t),
                     out |-> GetEdgeFlags(shape, x, y, t) ]
    /\ UNCHANGED <<cBlockSize, settings, result, shape, stream, restored>>
    /\ UNCHANGED <<dispatchVars, npqVars, lockVars>>

-----------------------------------------------------------------------------
(* Queries against a constructed height field                               *)

\* Height arrays for the queries: a background and the samples (1, 1) and
\* (2, 2), the ends of the diagonal of quad (1, 1)
QueryHeightArrays(inN) ==
    { [i \in 0 .. inN * inN - 1 |->
            IF i = inN + 1 THEN v ELSE IF i = (2 * inN) + 2 THEN w ELSE b] :
        b \in BackgroundValues, v \in HeightValues, w \in {0, MaxHeight, cNoCollisionValue} }

\* Height arrays with a hole at a third vertex of quad (1, 1)
ThirdVertexHoleArrays(inN) ==
    { [i \in 0 .. inN * inN - 1 |-> IF i = p THEN cNoCollisionValue ELSE 0] :
        p \in {inN + 2, (2 * inN) + 1} }

\* The fields the queries are run against; with the larger block size the
\* smaller ones are refused by the constructor
QuerySettings ==
    UNION { { MakeSettings(n, h, EmptyArray, EmptyArray) :
                h \in QueryHeightArrays(n) \cup ThirdVertexHoleArrays(n) } : n \in {4, 8} }

\* Points in the x-z plane, in quarters of a sample distance: vertices, points
\* inside both triangles and on the diagonal of a quad, points on and beyond
\* the border of a field of inN x inN samples
QueryPoints(inN) ==
    { <<0, 0>>, <<4, 4>>, <<5, 7>>, <<7, 5>>, <<6, 6>>, <<3, 1>>, <<8, 8>>, <<6, 4>>,
      <<-1, 4>>, <<4, -1>>, <<4 * (inN - 1), 4>>, <<4, 4 * (inN - 1)>>,
      <<(4 * (inN - 1)) - 1, (4 * (inN - 1)) - 2>>, <<4 * inN, 4 * inN>> }

\* Rays along the y axis: the origin above, inside or below the range of the
\* heights, the direction down or up
Rays(inN) ==
    { [ mOrigin |-> << p[1], oy, p[2] >>, mDirection |-> << 0, dy, 0 >> ] :
        p \in QueryPoints(inN), oy \in {5, 1, 12}, dy \in {-10, 10} }

\* The in/out hit before the cast: default constructed, or holding an earlier
\* hit at fraction 0.35 or at fraction 0
InitialHits ==
    { [ mFraction |-> f, mSubShapeID2 |-> -1 ] :
        f \in { cDefaultFraction, 7 * (FractionOne \div 20), 0 } }

InitQuery ==
    /\ InitLockVars
    /\ InitDispatchVars
    /\ InitNarrowPhaseVars
    /\ cBlockSize \in BlockSizes
    /\ settings \in QuerySettings
    /\ result = EmptyResult
    /\ shape = NoShape
    /\ query = NoQuery
    /\ stream = << >>
    /\ restored = NoShape

\* One call of the single hit CastRay on the constructed shape
CallCastRay ==
    /\ result.state = "shape"
    /\ query = NoQuery
    /\ \E ray \in Rays(shape.mSampleCount), hit \in InitialHits :
          query' = [ op |-> "CastRay", ray |-> ray, hitBefore |-> hit, out |-> CastRay(shape, ray, hit) ]
    /\ UNCHANGED <<cBlockSize, settings, result, shape, stream, restored>>
    /\ UNCHANGED <<dispatchVars, npqVars, lockVars>>

\* One call of ProjectOntoSurface on the constructed shape
CallProjectOntoSurface ==
    /\ result.state = "shape"
    /\ query = NoQuery
    /\ \E p \in QueryPoints(shape.mSampleCount) :
          query' = [ op |-> "ProjectOntoSurface", position |-> << p[1], 0, p[2] >>,
                     out |-> ProjectOntoSurface(shape, << p[1], 0, p[2] >>) ]
    /\ UNCHANGED <<cBlockSize, settings, result, shape, stream, restored>>
    /\ UNCHANGED <<dispatchVars, npqVars, lockVars>>

NextQuery ==
    \/ Create
    \/ CallCastRay
    \/ CallProjectOntoSurface
    \/ CallDecodeSubShapeID
    \/ CallGetEdgeFlags

SpecQuery == InitQuery /\ [][NextQuery]_vars


-----------------------------------------------------------------------------
(* Requests on shapes and on the CollisionDispatch                          *)

IdentityScale == Vec3(1, 1, 1)

Scales ==
    { IdentityScale, Vec3(2, 2, 2), Vec3(1, 2, 1), Vec3(-1, 1, 1),
      << Rational(1, 2), Rational(1, 1), Rational(3, 1) >> }

\* Shapes: every type, every type inside a ScaledShape, and a ScaledShape
\* inside a ScaledShape
Shapes ==
    { LeafShape(t) : t \in LeafTypes }
        \cup { ScaledShape(LeafShape(t), s) : t \in LeafTypes, s \in Scales }
        \cup { ScaledShape(ScaledShape(LeafShape(t), s1), s2) :
                 t \in {"Convex", "HeightField"}, s1 \in {IdentityScale, Vec3(2, 2, 2)},
                 s2 \in {IdentityScale, Vec3(1, 2, 1)} }

Points == { Vec3(1, 5, 1), Vec3(0, 0, 0), Vec3(-3, 2, 7) }
Directions == { Vec3(0, -10, 0), Vec3(1, 2, 3) }
Creators == { EmptyCreator, "creator1", "creator2" }

\* The collectors of a request: a fresh one, and one that reports
\* ShouldEarlyOut (its early out fraction is -FLT_MAX)
RequestCollectors == { [ mEarlyOutFraction |-> e ] : e \in {cFltMax, -cFltMax} }

\* The arguments a request hands on unchanged; the shape filter says yes or no
\* to the pair of sub shape IDs
RequestArgs ==
    { [ transform1 |-> "transform1", transform2 |-> "transform2",
        creator1 |-> c1, creator2 |-> c2, settings |-> "settings",
        filter |-> f, collector |-> c ] :
        c1 \in {"creator1"}, c2 \in {EmptyCreator, "creator2"}, f \in BOOLEAN,
        c \in RequestCollectors }

InitDispatch ==
    /\ InitLockVars
    /\ InitDispatchVars
    /\ InitNarrowPhaseVars
    /\ cBlockSize = 2
    /\ settings = MakeSettings(0, EmptyArray, EmptyArray, EmptyArray)
    /\ result = EmptyResult
    /\ shape = NoShape
    /\ query = NoQuery
    /\ stream = << >>
    /\ restored = NoShape

\* Shape::CastRay with a RayCastResult
RequestCastRay ==
    /\ request = NoRequest
    /\ \E s \in Shapes, o \in Points, d \in Directions, c \in Creators :
          /\ request' = [ op |-> "CastRay", shape |-> s,
                          ray |-> [ mOrigin |-> o, mDirection |-> d ], creator |-> c ]
          /\ received' = ShapeCastRay("CastRay(RayCastResult)", s,
                                      [ mOrigin |-> o, mDirection |-> d ], c)
    /\ UNCHANGED <<hfVars, npqVars, lockVars>>

\* Shape::CastRay with a collector
RequestCastRayCollector ==
    /\ request = NoRequest
    /\ \E s \in Shapes, o \in Points, d \in Directions, c \in Creators :
          /\ request' = [ op |-> "CastRayCollector", shape |-> s,
                          ray |-> [ mOrigin |-> o, mDirection |-> d ], creator |-> c ]
          /\ received' = ShapeCastRay("CastRay(CastRayCollector)", s,
                                      [ mOrigin |-> o, mDirection |-> d ], c)
    /\ UNCHANGED <<hfVars, npqVars, lockVars>>

\* Shape::CollidePoint
RequestCollidePoint ==
    /\ request = NoRequest
    /\ \E s \in Shapes, p \in Points, c \in Creators :
          /\ request' = [ op |-> "CollidePoint", shape |-> s, point |-> p, creator |-> c ]
          /\ received' = ShapeCollidePoint(s, p, c)
    /\ UNCHANGED <<hfVars, npqVars, lockVars>>

\* Shape::CastShape
RequestCastShape ==
    /\ request = NoRequest
    /\ \E s \in Shapes, scale \in Scales, d \in Directions, a \in RequestArgs :
          /\ request' = [ op |-> "CastShape", shape |-> s, scale |-> scale, args |-> a,
                          shapeCast |-> ShapeCast(LeafShape("Convex"), IdentityScale, "start", d) ]
          /\ received' = ShapeCastShape(ShapeCast(LeafShape("Convex"), IdentityScale, "start", d),
                                        s, scale, a)
    /\ UNCHANGED <<hfVars, npqVars, lockVars>>

\* Shape::CollectTransformedShapes
RequestCollectTransformedShapes ==
    /\ request = NoRequest
    /\ \E s \in Shapes, scale \in Scales, a \in RequestArgs :
          /\ request' = [ op |-> "CollectTransformedShapes", shape |-> s, scale |-> scale, args |-> a ]
          /\ received' = ShapeCollectTransformedShapes(s, scale, a)
    /\ UNCHANGED <<hfVars, npqVars, lockVars>>

\* CollisionDispatch::sCollideShapeVsShape
RequestCollideShapeVsShape ==
    /\ request = NoRequest
    /\ \E s1 \in Shapes, s2 \in Shapes, scale1 \in {IdentityScale, Vec3(2, 2, 2)},
          scale2 \in {IdentityScale, Vec3(1, 2, 1)}, a \in RequestArgs :
          /\ request' = [ op |-> "sCollideShapeVsShape", shape1 |-> s1, shape2 |-> s2,
                          scale1 |-> scale1, scale2 |-> scale2, args |-> a ]
          /\ received' = sCollideShapeVsShape(s1, s2, scale1, scale2, a)
    /\ UNCHANGED <<hfVars, npqVars, lockVars>>

\* CollisionDispatch::sCastShapeVsShape
RequestCastShapeVsShape ==
    /\ request = NoRequest
    /\ \E s1 \in Shapes, s2 \in Shapes, scale1 \in {IdentityScale, Vec3(2, 2, 2)},
          scale2 \in {IdentityScale, Vec3(1, 2, 1)}, a \in RequestArgs :
          /\ request' = [ op |-> "sCastShapeVsShape", shape |-> s2, scale |-> scale2, args |-> a,
                          shapeCast |-> ShapeCast(s1, scale1, "start", Vec3(0, -10, 0)) ]
          /\ received' = sCastShapeVsShape(ShapeCast(s1, scale1, "start", Vec3(0, -10, 0)),
                                           s2, scale2, a)
    /\ UNCHANGED <<hfVars, npqVars, lockVars>>

NextDispatch ==
    \/ RequestCastRay
    \/ RequestCastRayCollector
    \/ RequestCollidePoint
    \/ RequestCastShape
    \/ RequestCollectTransformedShapes
    \/ RequestCollideShapeVsShape
    \/ RequestCastShapeVsShape

SpecDispatch == InitDispatch /\ [][NextDispatch]_vars


-----------------------------------------------------------------------------
(* NarrowPhaseQuery: every operation constructs a MyCollector, hands it to  *)
(* the broad phase, and the broad phase calls its AddHit for the candidate  *)
(* bodies. Fractions are held in FractionOne-ths                            *)

\* FLT_MIN, the smallest positive fraction
cFltMin == 1

\* The budget of candidates the broad phase delivers in one call
MaxCandidates == 3

\* The number of bodies
NumBodies == 2

BodyIDs == 1 .. NumBodies

\* A body filter is a predicate over the body ID
BodyFilters == [ BodyIDs -> BOOLEAN ]

\* CollisionCollectorTraits*::InitialEarlyOutFraction
InitialEarlyOutFraction(inTraits) ==
    IF inTraits = "CollideShape" THEN cFltMax ELSE cDefaultFraction

\* CollisionCollectorTraits*::ShouldEarlyOutFraction
ShouldEarlyOutFraction(inTraits) ==
    IF inTraits = "CastRay" THEN 0 ELSE -cFltMax

\* CollisionCollector::CollisionCollector; hits lists the bodies whose hits the
\* collector was given
CollisionCollector(inTraits) ==
    [ traits |-> inTraits, mEarlyOutFraction |-> InitialEarlyOutFraction(inTraits), hits |-> << >> ]

\* CollisionCollector::UpdateEarlyOutFraction: sets the fraction (it asserts,
\* in builds with asserts, that the fraction does not grow)
UpdateEarlyOutFraction(inCollector, inFraction) ==
    [ inCollector EXCEPT !.mEarlyOutFraction = inFraction ]

\* CollisionCollector::ForceEarlyOut
ForceEarlyOut(inCollector) ==
    [ inCollector EXCEPT !.mEarlyOutFraction = ShouldEarlyOutFraction(inCollector.traits) ]

\* CollisionCollector::ShouldEarlyOut
ShouldEarlyOut(inCollector) ==
    inCollector.mEarlyOutFraction <= ShouldEarlyOutFraction(inCollector.traits)

\* The objects an operation works on: its MyCollector, the collector and the
\* RayCastResult of the caller, the log, and what the last narrow phase ray
\* cast returned
World ==
    [ collector |-> collector, ioCollector |-> ioCollector, ioHit |-> ioHit, log |-> log,
      returned |-> FALSE ]

\* The objects when the MyCollector of an operation is constructed
StartWorld(inTraits, inCollector, inHit) ==
    [ collector |-> CollisionCollector(inTraits), ioCollector |-> inCollector, ioHit |-> inHit,
      log |-> EmptyLog, returned |-> FALSE ]

\* The size of the array of mutexes of the BodyManager
NumBodyMutexes == 2

\* MutexArray::GetMutexIndex: the hash of the index of the body modulo the
\* number of mutexes
GetMutexIndex(inBodyIndex) == inBodyIndex % NumBodyMutexes

\* What happens to the locks and with the shape of a body during an
\* operation, in the order in which it happens
Event(inOp, inBodyID, inMutex) == [ op |-> inOp, body |-> inBodyID, mutex |-> inMutex ]

\* BodyLockInterfaceLocking::LockRead(BodyID): the mutex of the body is locked
\* shared
LockReadBody(inWorld, inBodyID) ==
    [ inWorld EXCEPT !.log.events = Append(@, Event("LockRead", inBodyID, GetMutexIndex(inBodyID))) ]

\* UnlockRead of a BodyLockInterface that leaves the mutex locked
UnlockReadBody_NoUnlock(inWorld, inBodyID, inMutex) == inWorld

\* BodyLockInterfaceLocking::UnlockRead(SharedMutex *)
UnlockReadBody(inWorld, inBodyID, inMutex) ==
    [ inWorld EXCEPT !.log.events = Append(@, Event("UnlockRead", inBodyID, inMutex)) ]

\* Body::GetTransformedShape under the lock: the copy that is returned
CopyTransformedShape(inWorld, inBodyID) ==
    [ inWorld EXCEPT !.log.resolved = Append(@, inBodyID),
                     !.log.events = Append(@, Event("GetTransformedShape", inBodyID,
                                                    GetMutexIndex(inBodyID))) ]

\* BodyInterface::GetTransformedShape: a BodyLockRead is held while the
\* transformed shape of the body is copied
GetTransformedShape(inWorld, inBodyID) ==
    UnlockReadBody(CopyTransformedShape(LockReadBody(inWorld, inBodyID), inBodyID),
                   inBodyID, GetMutexIndex(inBodyID))

\* TransformedShape::CastRay with a RayCastResult: the ray reaches the shape of
\* the body at inShapeFraction (cFltMax: it misses the shape); a hit closer
\* than the one in ioHit replaces it and makes the cast return true
TransformedShapeCastRay(inWorld, inBodyID, inShapeFraction) ==
    IF inShapeFraction < inWorld.ioHit.mFraction
    THEN [ inWorld EXCEPT !.ioHit = [ mBodyID |-> inBodyID, mFraction |-> inShapeFraction ],
                          !.log.queries = Append(@, inBodyID),
                          !.log.hits = Append(@, inShapeFraction),
                          !.log.events = Append(@, Event("Query", inBodyID, -1)),
                          !.returned = TRUE ]
    ELSE [ inWorld EXCEPT !.log.queries = Append(@, inBodyID),
                          !.log.events = Append(@, Event("Query", inBodyID, -1)),
                          !.returned = FALSE ]

\* TransformedShape::CastRay / CollidePoint / CollideShape / CastShape /
\* CollectTransformedShapes with the collector of the caller: the collector is
\* given inOutcome.hits hits of the body, and its AddHit leaves its early out
\* fraction at inOutcome.earlyOut
TransformedShapeQuery(inWorld, inBodyID, inOutcome) ==
    [ inWorld EXCEPT
        !.log.queries = Append(@, inBodyID),
        !.log.events = IF inOutcome.hits = 0
                       THEN Append(@, Event("Query", inBodyID, -1))
                       ELSE @ \o << Event("Query", inBodyID, -1), Event("AddHit", inBodyID, -1) >>,
        !.log.callerNonIncreasing =
            @ /\ (inOutcome.hits = 0 \/ inOutcome.earlyOut <= inWorld.ioCollector.mEarlyOutFraction),
        !.ioCollector = IF inOutcome.hits = 0 THEN @
                        ELSE [ @ EXCEPT !.hits = Append(@, inBodyID),
                                        !.mEarlyOutFraction = inOutcome.earlyOut ] ]

\* NarrowPhaseQuery::CastRay (single hit): MyCollector::MyCollector
NPQCastRay_MyCollector(inWorld) ==
    [ inWorld EXCEPT !.collector = UpdateEarlyOutFraction(@, inWorld.ioHit.mFraction) ]

\* The single hit CastRay without the update after the narrow phase
NPQCastRay_Update_Skipped(inWorld) == inWorld

\* NarrowPhaseQuery::CastRay (single hit): the update after the narrow phase
NPQCastRay_Update(inWorld) ==
    IF inWorld.returned
    THEN [ inWorld EXCEPT !.collector = UpdateEarlyOutFraction(@, inWorld.ioHit.mFraction) ]
    ELSE inWorld

\* NarrowPhaseQuery::CastRay (single hit): MyCollector::AddHit
NPQCastRay_AddHit(inWorld, inBodyFilter, inBodyID, inShapeFraction) ==
    IF inBodyFilter[inBodyID]
    THEN NPQCastRay_Update(TransformedShapeCastRay(GetTransformedShape(inWorld, inBodyID),
                                                   inBodyID, inShapeFraction))
    ELSE inWorld

\* NarrowPhaseQuery::CastRay (single hit): the return value
NPQCastRay_Return(inHit) == inHit.mFraction <= FractionOne

\* UpdateEarlyOutFraction(mCollector.GetEarlyOutFraction()) of a MyCollector
UpdateFromCollector(inWorld) ==
    [ inWorld EXCEPT !.collector = UpdateEarlyOutFraction(@, inWorld.ioCollector.mEarlyOutFraction) ]

\* NarrowPhaseQuery::CastRay (collector): MyCollector::MyCollector
NPQCastRayCollector_MyCollector(inWorld) == UpdateFromCollector(inWorld)

\* MyCollector::AddHit of the CastRay with a collector without the test of the
\* body filter
NPQCastRayCollector_AddHit_IgnoresBodyFilter(inWorld, inBodyFilter, inBodyID, inOutcome) ==
    UpdateFromCollector(TransformedShapeQuery(GetTransformedShape(inWorld, inBodyID),
                                              inBodyID, inOutcome))

\* NarrowPhaseQuery::CastRay (collector): MyCollector::AddHit
NPQCastRayCollector_AddHit(inWorld, inBodyFilter, inBodyID, inOutcome) ==
    IF inBodyFilter[inBodyID]
    THEN UpdateFromCollector(TransformedShapeQuery(GetTransformedShape(inWorld, inBodyID),
                                                   inBodyID, inOutcome))
    ELSE inWorld

\* NarrowPhaseQuery::CollidePoint: MyCollector::AddHit
NPQCollidePoint_AddHit(inWorld, inBodyFilter, inBodyID, inOutcome) ==
    IF inBodyFilter[inBodyID]
    THEN UpdateFromCollector(TransformedShapeQuery(GetTransformedShape(inWorld, inBodyID),
                                                   inBodyID, inOutcome))
    ELSE inWorld

\* NarrowPhaseQuery::CollideShape: MyCollector::AddHit
NPQCollideShape_AddHit(inWorld, inBodyFilter, inBodyID, inOutcome) ==
    IF inBodyFilter[inBodyID]
    THEN UpdateFromCollector(TransformedShapeQuery(GetTransformedShape(inWorld, inBodyID),
                                                   inBodyID, inOutcome))
    ELSE inWorld

\* PropagateEarlyOutFraction without the clamp to FLT_MIN
PropagateEarlyOutFraction_NoClamp(inWorld) ==
    IF ShouldEarlyOut(inWorld.ioCollector)
    THEN [ inWorld EXCEPT !.collector = ForceEarlyOut(@) ]
    ELSE [ inWorld EXCEPT !.collector =
               UpdateEarlyOutFraction(@, inWorld.ioCollector.mEarlyOutFraction) ]

\* NarrowPhaseQuery::CastShape: MyCollector::PropagateEarlyOutFraction
PropagateEarlyOutFraction(inWorld) ==
    IF ShouldEarlyOut(inWorld.ioCollector)
    THEN [ inWorld EXCEPT !.collector = ForceEarlyOut(@) ]
    ELSE [ inWorld EXCEPT !.collector =
               UpdateEarlyOutFraction(@, MaxOf(cFltMin, inWorld.ioCollector.mEarlyOutFraction)) ]

\* A constructor of the MyCollector of CastShape that does not propagate the
\* early out fraction of the collector of the caller
NPQCastShape_MyCollector_NoPropagation(inWorld) == inWorld

\* NarrowPhaseQuery::CastShape: MyCollector::MyCollector
NPQCastShape_MyCollector(inWorld) == PropagateEarlyOutFraction(inWorld)

\* NarrowPhaseQuery::CastShape: MyCollector::AddHit
NPQCastShape_AddHit(inWorld, inBodyFilter, inBodyID, inOutcome) ==
    IF inBodyFilter[inBodyID]
    THEN PropagateEarlyOutFraction(TransformedShapeQuery(GetTransformedShape(inWorld, inBodyID),
                                                         inBodyID, inOutcome))
    ELSE inWorld

\* NarrowPhaseQuery::CollectTransformedShapes: MyCollector::AddHit
NPQCollectTransformedShapes_AddHit(inWorld, inBodyFilter, inBodyID, inOutcome) ==
    IF inBodyFilter[inBodyID]
    THEN UpdateFromCollector(TransformedShapeQuery(GetTransformedShape(inWorld, inBodyID),
                                                   inBodyID, inOutcome))
    ELSE inWorld


-----------------------------------------------------------------------------
(* The operations of the NarrowPhaseQuery. The broad phase is free to       *)
(* deliver any candidate at any time and to end at any time, which covers   *)
(* every order and every pruning of the candidates                          *)

\* The early out fractions a collector of the caller can report: early out
\* for shape collectors, a penetration depth, early out for ray collectors, the
\* smallest positive fraction, a fraction on the ray, the fractions of fresh
\* collectors
EarlyOutValues ==
    { -cFltMax, -(FractionOne \div 10), 0, cFltMin, FractionOne \div 2, cDefaultFraction, cFltMax }

\* The fractions in the RayCastResult the caller hands in
InitialHitFractions == { cDefaultFraction, FractionOne \div 2, 0, cFltMax }

\* Where the ray reaches the shape of a body; cFltMax: nowhere
ShapeFractions ==
    { 0, FractionOne \div 4, FractionOne \div 2, FractionOne, 3 * (FractionOne \div 2), cFltMax }

\* What a narrow phase query does to the collector of the caller
Outcomes ==
    { [ hits |-> 0, earlyOut |-> 0 ] } \cup { [ hits |-> 1, earlyOut |-> e ] : e \in EarlyOutValues }

\* The collectors a caller hands in
CallerCollectors(inTraits) ==
    { [ CollisionCollector(inTraits) EXCEPT !.mEarlyOutFraction = e ] : e \in EarlyOutValues }

InitNarrowPhase ==
    /\ InitLockVars
    /\ InitNarrowPhaseVars
    /\ InitDispatchVars
    /\ cBlockSize = 2
    /\ settings = MakeSettings(0, EmptyArray, EmptyArray, EmptyArray)
    /\ result = EmptyResult
    /\ shape = NoShape
    /\ query = NoQuery
    /\ stream = << >>
    /\ restored = NoShape

\* The call starts: the state of the broad phase
StartCall(inOp, inBodyFilter, inInitial) ==
    [ op |-> inOp, pc |-> "broadphase", bodyFilter |-> inBodyFilter, initial |-> inInitial,
      delivered |-> 0, last |-> 0, returned |-> FALSE ]

\* The objects after a constructor or an AddHit
Commit(inWorld) ==
    /\ collector' = inWorld.collector
    /\ ioCollector' = inWorld.ioCollector
    /\ ioHit' = inWorld.ioHit
    /\ log' = inWorld.log

\* The broad phase has delivered the candidate inBodyID
Delivered(inBodyID) ==
    call' = [ call EXCEPT !.delivered = @ + 1, !.last = inBodyID ]

\* NarrowPhaseQuery::CastRay (single hit) up to the call of the broad phase
CallNPQCastRay ==
    /\ call.pc = "idle"
    /\ \E f \in InitialHitFractions, filter \in BodyFilters :
          /\ call' = StartCall("CastRay", filter, f)
          /\ Commit(NPQCastRay_MyCollector(
                        StartWorld("CastRay", NoCollector, [ mBodyID |-> 0, mFraction |-> f ])))
    /\ UNCHANGED <<hfVars, dispatchVars, lockVars>>

\* The broad phase calls AddHit of the single hit CastRay
AddHitNPQCastRay ==
    /\ call.pc = "broadphase"
    /\ call.op = "CastRay"
    /\ call.delivered < MaxCandidates
    /\ \E b \in BodyIDs, f \in ShapeFractions :
          /\ Commit(NPQCastRay_AddHit(World, call.bodyFilter, b, f))
          /\ Delivered(b)
    /\ UNCHANGED <<hfVars, dispatchVars, lockVars>>

\* NarrowPhaseQuery::CastRay (single hit) returns
ReturnNPQCastRay ==
    /\ call.pc = "broadphase"
    /\ call.op = "CastRay"
    /\ call' = [ call EXCEPT !.pc = "done", !.returned = NPQCastRay_Return(ioHit) ]
    /\ UNCHANGED <<hfVars, dispatchVars, collector, ioCollector, ioHit, log, lockVars>>

\* NarrowPhaseQuery::CastRay (collector) up to the call of the broad phase
CallNPQCastRayCollector ==
    /\ call.pc = "idle"
    /\ \E c \in CallerCollectors("CastRay"), filter \in BodyFilters :
          /\ call' = StartCall("CastRayCollector", filter, c.mEarlyOutFraction)
          /\ Commit(NPQCastRayCollector_MyCollector(StartWorld("CastRay", c, NoHit)))
    /\ UNCHANGED <<hfVars, dispatchVars, lockVars>>

\* The broad phase calls AddHit of the CastRay with a collector
AddHitNPQCastRayCollector ==
    /\ call.pc = "broadphase"
    /\ call.op = "CastRayCollector"
    /\ call.delivered < MaxCandidates
    /\ \E b \in BodyIDs, o \in Outcomes :
          /\ Commit(NPQCastRayCollector_AddHit(World, call.bodyFilter, b, o))
          /\ Delivered(b)
    /\ UNCHANGED <<hfVars, dispatchVars, lockVars>>

\* NarrowPhaseQuery::CollidePoint up to the call of the broad phase
CallNPQCollidePoint ==
    /\ call.pc = "idle"
    /\ \E c \in CallerCollectors("CollideShape"), filter \in BodyFilters :
          /\ call' = StartCall("CollidePoint", filter, c.mEarlyOutFraction)
          /\ Commit(StartWorld("CollideShape", c, NoHit))
    /\ UNCHANGED <<hfVars, dispatchVars, lockVars>>

\* The broad phase calls AddHit of CollidePoint
AddHitNPQCollidePoint ==
    /\ call.pc = "broadphase"
    /\ call.op = "CollidePoint"
    /\ call.delivered < MaxCandidates
    /\ \E b \in BodyIDs, o \in Outcomes :
          /\ Commit(NPQCollidePoint_AddHit(World, call.bodyFilter, b, o))
          /\ Delivered(b)
    /\ UNCHANGED <<hfVars, dispatchVars, lockVars>>

\* NarrowPhaseQuery::CollideShape up to the call of the broad phase
CallNPQCollideShape ==
    /\ call.pc = "idle"
    /\ \E c \in CallerCollectors("CollideShape"), filter \in BodyFilters :
          /\ call' = StartCall("CollideShape", filter, c.mEarlyOutFraction)
          /\ Commit(StartWorld("CollideShape", c, NoHit))
    /\ UNCHANGED <<hfVars, dispatchVars, lockVars>>

\* The broad phase calls AddHit of CollideShape
AddHitNPQCollideShape ==
    /\ call.pc = "broadphase"
    /\ call.op = "CollideShape"
    /\ call.delivered < MaxCandidates
    /\ \E b \in BodyIDs, o \in Outcomes :
          /\ Commit(NPQCollideShape_AddHit(World, call.bodyFilter, b, o))
          /\ Delivered(b)
    /\ UNCHANGED <<hfVars, dispatchVars, lockVars>>

\* NarrowPhaseQuery::CastShape up to the call of the broad phase
CallNPQCastShape ==
    /\ call.pc = "idle"
    /\ \E c \in CallerCollectors("CastShape"), filter \in BodyFilters :
          /\ call' = StartCall("CastShape", filter, c.mEarlyOutFraction)
          /\ Commit(NPQCastShape_MyCollector(StartWorld("CastShape", c, NoHit)))
    /\ UNCHANGED <<hfVars, dispatchVars, lockVars>>

\* The broad phase calls AddHit of CastShape
AddHitNPQCastShape ==
    /\ call.pc = "broadphase"
    /\ call.op = "CastShape"
    /\ call.delivered < MaxCandidates
    /\ \E b \in BodyIDs, o \in Outcomes :
          /\ Commit(NPQCastShape_AddHit(World, call.bodyFilter, b, o))
          /\ Delivered(b)
    /\ UNCHANGED <<hfVars, dispatchVars, lockVars>>

\* NarrowPhaseQuery::CollectTransformedShapes up to the call of the broad phase
CallNPQCollectTransformedShapes ==
    /\ call.pc = "idle"
    /\ \E c \in CallerCollectors("CollideShape"), filter \in BodyFilters :
          /\ call' = StartCall("CollectTransformedShapes", filter, c.mEarlyOutFraction)
          /\ Commit(StartWorld("CollideShape", c, NoHit))
    /\ UNCHANGED <<hfVars, dispatchVars, lockVars>>

\* The broad phase calls AddHit of CollectTransformedShapes
AddHitNPQCollectTransformedShapes ==
    /\ call.pc = "broadphase"
    /\ call.op = "CollectTransformedShapes"
    /\ call.delivered < MaxCandidates
    /\ \E b \in BodyIDs, o \in Outcomes :
          /\ Commit(NPQCollectTransformedShapes_AddHit(World, call.bodyFilter, b, o))
          /\ Delivered(b)
    /\ UNCHANGED <<hfVars, dispatchVars, lockVars>>

\* An operation with a collector returns
ReturnNPQ ==
    /\ call.pc = "broadphase"
    /\ call.op # "CastRay"
    /\ call' = [ call EXCEPT !.pc = "done" ]
    /\ UNCHANGED <<hfVars, dispatchVars, collector, ioCollector, ioHit, log, lockVars>>

NextNarrowPhase ==
    \/ CallNPQCastRay
    \/ AddHitNPQCastRay
    \/ ReturnNPQCastRay
    \/ CallNPQCastRayCollector
    \/ AddHitNPQCastRayCollector
    \/ CallNPQCollidePoint
    \/ AddHitNPQCollidePoint
    \/ CallNPQCollideShape
    \/ AddHitNPQCollideShape
    \/ CallNPQCastShape
    \/ AddHitNPQCastShape
    \/ CallNPQCollectTransformedShapes
    \/ AddHitNPQCollectTransformedShapes
    \/ ReturnNPQ

SpecNarrowPhase == InitNarrowPhase /\ [][NextNarrowPhase]_vars


-----------------------------------------------------------------------------
(* Claims about the construction of the height field                        *)

PowersOfTwo == { Pow2(k) : k \in 0 .. 20 }

\* The settings the constructor must refuse
RefusedSettings ==
    LET n    == settings.mSampleCount
        mats == Len0(settings.mMaterials)
        idx  == settings.mMaterialIndices
    IN  \/ n \notin PowersOfTwo
        \/ n < 2 * cBlockSize
        \/ n > cBlockSize * 16384
        \/ \E k \in 0 .. 20 : n = Pow2(k) /\ 2 * k + 1 > 32
        \/ mats > 256
        \/ \E i \in DOMAIN idx : idx[i] >= mats
        \/ (mats = 0 /\ idx # EmptyArray)

\* C1: once Create has run, the result is in the error state and there is no
\* shape exactly when the settings have a sample count that is no power of
\* two, is below 2 * cBlockSize, exceeds cBlockSize * 2^cNumBitsXY or needs
\* more sub shape ID bits than SubShapeID::MaxBits, or have more than 256
\* materials, a material index >= the size of the material list, or material
\* indices without materials; the result holds the shape in every other case
C1_CreateFailsExactlyOnRefusedSettings ==
    result.state # "empty" =>
        /\ RefusedSettings => (result.state = "error" /\ result.error # NoError /\ shape = NoShape)
        /\ ~RefusedSettings => (result.state = "shape" /\ shape # NoShape
                                 /\ shape.mSampleCount = settings.mSampleCount)

\* Create has refused settings whose only fault is a material index beyond the list
C1_Witness ==
    /\ result.state = "error"
    /\ result.error = "Material beyond list"
    /\ Len0(settings.mMaterials) = 2


\* The 16 bit quantized values of the samples that have collision
CollidableQuantized ==
    { QuantizedSamples(settings)[i] : i \in DOMAIN settings.mHeightSamples } \ {cNoCollisionValue16}

\* The range a block of mRangeBlocks spans: the min / max over its 4 entries
BlockMin(inBlock) == SetMin({ inBlock.mMin[d] : d \in 0 .. 3 })
BlockMax(inBlock) == SetMax({ inBlock.mMax[d] : d \in 0 .. 3 })

\* The entry of the parent block that stores the range of block inIndex (level >= 1)
ParentEntry(inIndex) ==
    LET level  == LevelOfBlock(inIndex, 0)
        n      == Pow2(level)
        pos    == inIndex - GridOffset(level)
        x      == pos % n
        y      == pos \div n
        parent == shape.mRangeBlocks[GridOffset(level - 1) + (y \div 2) * (n \div 2) + (x \div 2)]
        slot   == (y % 2) * 2 + (x % 2)
    IN  [ mMin |-> parent.mMin[slot], mMax |-> parent.mMax[slot] ]

\* C2: after a successful construction mMinSample / mMaxSample are the
\* minimum and maximum of the 16 bit quantized values of the samples that are
\* not the no-collision value (0xffff / 0, the start values of the scan, when
\* there is none), the root is the min / max over the 4 entries of the first
\* range block, and the range stored for every block in its parent block is
\* the min / max over the block's own 4 entries
C2_RangeHierarchyIsExact ==
    result.state = "shape" =>
        /\ IF CollidableQuantized = {}
           THEN shape.mMinSample = 65535 /\ shape.mMaxSample = 0
           ELSE /\ shape.mMinSample = SetMin(CollidableQuantized)
                /\ shape.mMaxSample = SetMax(CollidableQuantized)
        /\ shape.mMinSample = BlockMin(shape.mRangeBlocks[0])
        /\ shape.mMaxSample = BlockMax(shape.mRangeBlocks[0])
        /\ \A i \in DOMAIN shape.mRangeBlocks :
              i >= 1 => /\ ParentEntry(i).mMin = BlockMin(shape.mRangeBlocks[i])
                        /\ ParentEntry(i).mMax = BlockMax(shape.mRangeBlocks[i])

\* A field with two levels of range blocks and different heights was built, in
\* which a leaf block without any collision lies beside one with collision
C2_Witness ==
    /\ result.state = "shape"
    /\ Len0(shape.mRangeBlocks) = 5
    /\ shape.mMinSample < shape.mMaxSample
    /\ \E i \in DOMAIN shape.mHeightSamples : shape.mHeightSamples[i] = cNoCollisionValue8
    /\ \E i \in DOMAIN shape.mRangeBlocks :
          /\ i >= 1
          /\ BlockMax(shape.mRangeBlocks[i]) > 0
          /\ \E d \in 0 .. 3 : shape.mRangeBlocks[i].mMin[d] = 65535


-----------------------------------------------------------------------------
(* Claims about the queries against the height field                        *)

\* The flat field of 4 x 4 samples of height 0 and the ray from (1, 5, 1) with
\* direction (0, -10, 0)
FlatField4 == MakeSettings(4, FlatArray(4, 0), EmptyArray, EmptyArray)
RayDownFrom5 == [ mOrigin |-> << 4, 5, 4 >>, mDirection |-> << 0, -10, 0 >> ]

\* C3: with block size 2 the flat field of 4 x 4 samples of height 0 and scale
\* (1, 1, 1) is constructed, and the single hit ray cast from (1, 5, 1) with
\* direction (0, -10, 0), entered with a hit fraction above 0.5 (that of a
\* default constructed result included), returns true with fraction 0.5, where
\* the ray is at height 0
C3_FlatFieldRayHitsAtHalf ==
    (cBlockSize = 2 /\ settings = FlatField4 /\ result.state # "empty") =>
        /\ result.state = "shape"
        /\ (query.op = "CastRay" /\ query.ray = RayDownFrom5
                /\ query.hitBefore.mFraction > FractionOne \div 2) =>
              /\ query.out.returned
              /\ 2 * query.out.hit.mFraction = FractionOne
              /\ RayHeightAt(query.ray, query.out.hit.mFraction) = 0

\* The ray was cast against the flat field with a default constructed result
C3_Witness ==
    /\ cBlockSize = 2
    /\ settings = FlatField4
    /\ query.op = "CastRay"
    /\ query.ray = RayDownFrom5
    /\ query.hitBefore.mFraction = cDefaultFraction
    /\ query.out.returned

\* The scenario as the claim states it, with block size 4: the field is
\* constructed
C3_AsStatedWithBlockSize4 ==
    (cBlockSize = 4 /\ settings = FlatField4 /\ result.state # "empty") =>
        result.state = "shape"

\* Whether sample (inX, inY) of the settings is marked as having no collision
IsHole(inX, inY) ==
    settings.mHeightSamples[(inY * settings.mSampleCount) + inX] = cNoCollisionValue

\* The positions ProjectOntoSurface must refuse: outside [0, mSampleCount - 1)
\* along x or z, or in a quad where (x, y), (x + 1, y + 1) or the third vertex
\* of the triangle below the position has no collision
NotOnSurface(inPosition) ==
    LET last == 4 * (settings.mSampleCount - 1)
        x == inPosition[1] \div 4
        y == inPosition[3] \div 4
    IN  IF inPosition[1] < 0 \/ inPosition[1] >= last \/ inPosition[3] < 0 \/ inPosition[3] >= last
        THEN TRUE
        ELSE \/ IsHole(x, y)
             \/ IsHole(x + 1, y + 1)
             \/ IF inPosition[3] % 4 >= inPosition[1] % 4 THEN IsHole(x, y + 1) ELSE IsHole(x + 1, y)

\* C4: ProjectOntoSurface returns false for a position outside
\* [0, mSampleCount - 1) along x or z and for a position in a quad (x, y) where
\* sample (x, y), sample (x + 1, y + 1) or the third vertex of the selected
\* triangle ((x, y + 1) when y_frac >= x_frac, else (x + 1, y)) has no
\* collision; for every other position it returns true and the sub shape ID
\* has triangle bit 0 when y_frac >= x_frac and 1 otherwise
C4_ProjectOntoSurfaceTrueExactlyOnCollidableTriangle ==
    query.op = "ProjectOntoSurface" =>
        IF NotOnSurface(query.position)
        THEN ~query.out.returned
        ELSE /\ query.out.returned
             /\ query.out.outSubShapeID % 2
                    = (IF query.position[3] % 4 >= query.position[1] % 4 THEN 0 ELSE 1)

\* A position on the diagonal of a quad was projected, in a field with a hole
C4_Witness ==
    /\ query.op = "ProjectOntoSurface"
    /\ query.out.returned
    /\ query.position = << 6, 0, 6 >>
    /\ \E i \in DOMAIN settings.mHeightSamples : settings.mHeightSamples[i] = cNoCollisionValue


-----------------------------------------------------------------------------
(* Claims about the binary state of the height field                        *)

\* The cells inFrom .. inFrom + inCount - 1 of the stream, as an array
StreamCells(inFrom, inCount) == [ i \in 0 .. inCount - 1 |-> stream[inFrom + i] ]

\* The range blocks flattened the way they lie in the stream
FlatRangeBlocks ==
    [ i \in 0 .. (8 * Len0(shape.mRangeBlocks)) - 1 |->
        IF i % 8 < 4 THEN shape.mRangeBlocks[i \div 8].mMin[i % 8]
                     ELSE shape.mRangeBlocks[i \div 8].mMax[(i % 8) - 4] ]

\* The stream holds, after the state of the base class, the offset, the scale,
\* the sample count, the min and max sample, the range blocks, the height
\* samples, the active edges, the material indices and the bits per material
\* index, in this order, and nothing else
StreamLayout ==
    LET blocks  == 11
        samples == blocks + 1 + (8 * Len0(shape.mRangeBlocks))
        edges   == samples + 1 + Len0(shape.mHeightSamples)
        indices == edges + 1 + Len0(shape.mActiveEdges)
        bits    == indices + 1 + Len0(shape.mMaterialIndices)
    IN  /\ Len(stream) = bits
        /\ << stream[2], stream[3], stream[4] >> = shape.mOffset
        /\ << stream[5], stream[6], stream[7] >> = shape.mScale
        /\ stream[8] = shape.mSampleCount
        /\ stream[9] = shape.mMinSample
        /\ stream[10] = shape.mMaxSample
        /\ stream[blocks] = Len0(shape.mRangeBlocks)
        /\ StreamCells(blocks + 1, 8 * Len0(shape.mRangeBlocks)) = FlatRangeBlocks
        /\ stream[samples] = Len0(shape.mHeightSamples)
        /\ StreamCells(samples + 1, Len0(shape.mHeightSamples)) = shape.mHeightSamples
        /\ stream[edges] = Len0(shape.mActiveEdges)
        /\ StreamCells(edges + 1, Len0(shape.mActiveEdges)) = shape.mActiveEdges
        /\ stream[indices] = Len0(shape.mMaterialIndices)
        /\ StreamCells(indices + 1, Len0(shape.mMaterialIndices)) = shape.mMaterialIndices
        /\ stream[bits] = shape.mNumBitsPerMaterialIndex

\* C5: SaveBinaryState writes offset, scale, sample count, min sample, max
\* sample, range blocks, height samples, active edges, material indices and
\* bits per material index in this order and does not write the material
\* list; RestoreBinaryState on a default constructed shape reads them back in
\* the same order, so that each of these fields of the restored shape equals
\* that of the saved shape, and leaves the material list empty
C5_SaveRestoreRoundTrip ==
    /\ stream # << >> => StreamLayout
    /\ restored # NoShape =>
          /\ restored.mOffset = shape.mOffset
          /\ restored.mScale = shape.mScale
          /\ restored.mSampleCount = shape.mSampleCount
          /\ restored.mMinSample = shape.mMinSample
          /\ restored.mMaxSample = shape.mMaxSample
          /\ restored.mRangeBlocks = shape.mRangeBlocks
          /\ restored.mHeightSamples = shape.mHeightSamples
          /\ restored.mActiveEdges = shape.mActiveEdges
          /\ restored.mMaterialIndices = shape.mMaterialIndices
          /\ restored.mNumBitsPerMaterialIndex = shape.mNumBitsPerMaterialIndex
          /\ restored.mMaterials = EmptyArray

\* A shape with several materials and packed material indices was saved and
\* restored
C5_Witness ==
    /\ restored # NoShape
    /\ Len0(shape.mMaterials) > 2
    /\ shape.mNumBitsPerMaterialIndex > 1
    /\ \E i \in DOMAIN restored.mMaterialIndices : restored.mMaterialIndices[i] # 0


-----------------------------------------------------------------------------
(* Claims about ScaledShape and the CollisionDispatch                       *)

IsIdentityScaled(inShape) == inShape.type = "Scaled" /\ inShape.mScale = IdentityScale

\* The type of the shape inside all the ScaledShapes around it
RECURSIVE BaseType(_)
BaseType(inShape) == IF inShape.type = "Scaled" THEN BaseType(inShape.mInnerShape) ELSE inShape.type

\* The types of a first shape that the dispatch hands, together with the still
\* decorated second shape, to a function outside the dispatch
HandedOnTypes == { "StaticCompound", "MutableCompound", "RotatedTranslated", "OffsetCenterOfMass" }

-----------------------------------------------------------------------------
(* Claims about the NarrowPhaseQuery                                        *)

\* C7: in every operation of the NarrowPhaseQuery the early out fraction of
\* the MyCollector handed to the broad phase never grows from its construction
\* on, whatever candidates the broad phase delivers, as long as the early out
\* fraction of the collector of the caller has not grown.
C7_BroadPhaseEarlyOutNeverGrows ==
    [][ (call.pc = "broadphase" /\ log'.callerNonIncreasing) =>
            collector'.mEarlyOutFraction <= collector.mEarlyOutFraction ]_vars

\* A CastShape whose MyCollector was constructed with just over 1.0 and went
\* down to FLT_MIN when a body was hit with a penetration depth
C7_Witness ==
    /\ call.op = "CastShape"
    /\ call.delivered = 2
    /\ call.initial = cDefaultFraction
    /\ log.callerNonIncreasing
    /\ Len(ioCollector.hits) = 2
    /\ ioCollector.mEarlyOutFraction = -(FractionOne \div 10)
    /\ collector.mEarlyOutFraction = cFltMin

\* C8: the single hit CastRay returns true only if a body was hit in this call
\* at a fraction of at most 1.0, and returns false when no body was hit,
\* whatever fraction the RayCastResult held on entry.
C8_TrueOnlyOnHitInThisCall ==
    (call.pc = "done" /\ call.op = "CastRay") =>
        /\ call.returned => \E i \in 1 .. Len(log.hits) : log.hits[i] <= FractionOne
        /\ log.hits = << >> => ~call.returned

\* C9: when the body filter rejects the candidate the broad phase delivers,
\* the call does not resolve the transformed shape of the body, runs no narrow
\* phase query, gives the collector (or the RayCastResult) of the caller
\* nothing and leaves the early out fraction of the MyCollector as it is, in
\* each of the six operations.
C9_RejectedBodyChangesNothing ==
    [][ (call'.delivered = call.delivered + 1 /\ ~call.bodyFilter[call'.last]) =>
            /\ log' = log
            /\ ioCollector' = ioCollector
            /\ ioHit' = ioHit
            /\ collector' = collector ]_vars

\* A CastRay with a collector where a body was accepted and hit and the body
\* delivered after it was rejected
C9_Witness ==
    /\ call.op = "CastRayCollector"
    /\ call.delivered = 2
    /\ ~call.bodyFilter[call.last]
    /\ log.resolved = << 3 - call.last >>
    /\ log.queries = << 3 - call.last >>
    /\ ioCollector.hits = << 3 - call.last >>
    /\ collector.mEarlyOutFraction = FractionOne \div 2
    /\ call.initial = cDefaultFraction

\* C10: during a CastShape, from the construction of the MyCollector on, the
\* MyCollector is forced to early out when the collector of the caller reports
\* early out, and otherwise its early out fraction is the larger one of FLT_MIN
\* and the early out fraction of the collector of the caller, hence positive
\* also for a negative penetration depth.
C10_CastShapeEarlyOutIsClamped ==
    (call.op = "CastShape" /\ call.pc # "idle") =>
        IF ioCollector.mEarlyOutFraction <= -cFltMax
        THEN collector.mEarlyOutFraction = -cFltMax
        ELSE /\ collector.mEarlyOutFraction > 0
             /\ collector.mEarlyOutFraction =
                   IF ioCollector.mEarlyOutFraction > cFltMin
                   THEN ioCollector.mEarlyOutFraction ELSE cFltMin

\* A CastShape where an accepted body left a penetration depth in the
\* collector of the caller, after a rejected body
C10_Witness ==
    /\ call.op = "CastShape"
    /\ call.pc = "done"
    /\ call.delivered = 2
    /\ call.bodyFilter[call.last]
    /\ Len(log.resolved) = 1
    /\ call.initial = FractionOne \div 2
    /\ ioCollector.mEarlyOutFraction = -(FractionOne \div 10)
    /\ collector.mEarlyOutFraction = cFltMin


-----------------------------------------------------------------------------
(* Claims about the cases of the CollisionDispatch                          *)

StaticTypes == { "Mesh", "HeightField" }

AssertCannotBeDynamic ==
    [ fn |-> "JPH_ASSERT", message |-> "Mesh / height field shapes cannot be dynamic, ignoring!" ]

AssertCannotCast ==
    [ fn |-> "JPH_ASSERT", message |-> "Cannot cast a mesh / height field, ignoring!" ]

\* C11: a mesh or a height field as the first shape of sCollideShapeVsShape,
\* bare or inside any number of ScaledShapes, ends in the assert and in no
\* other call; as the cast shape of sCastShapeVsShape it ends in the assert
\* when the shape filter accepts the pair of sub shape IDs, and in no call at
\* all when the filter rejects it.
C11_StaticShapeAsFirstShapeAsserts ==
    /\ (request.op = "sCollideShapeVsShape" /\ BaseType(request.shape1) \in StaticTypes) =>
          received = AssertCannotBeDynamic
    /\ (request.op = "sCastShapeVsShape" /\ BaseType(request.shapeCast.mShape) \in StaticTypes) =>
          received = IF request.args.filter THEN AssertCannotCast ELSE NothingReceived

\* A cast of a height field inside two ScaledShapes that the shape filter
\* accepted and that ended in the assert
C11_Witness ==
    /\ request.op = "sCastShapeVsShape"
    /\ request.shapeCast.mShape.type = "Scaled"
    /\ request.shapeCast.mShape.mInnerShape.type = "Scaled"
    /\ BaseType(request.shapeCast.mShape) = "HeightField"
    /\ request.args.filter
    /\ received = AssertCannotCast

\* C11 as stated: the assert is hit whenever the first shape or the cast shape
\* is a mesh or a height field
C11_AsStatedAlwaysAsserts ==
    /\ (request.op = "sCollideShapeVsShape" /\ BaseType(request.shape1) \in StaticTypes) =>
          received.fn = "JPH_ASSERT"
    /\ (request.op = "sCastShapeVsShape" /\ BaseType(request.shapeCast.mShape) \in StaticTypes) =>
          received.fn = "JPH_ASSERT"



\* C12: a pair of shape types without a routine ends in the assert: a first
\* shape, or a cast shape the shape filter lets through, of a type the
\* dispatch does not know, and a second shape of such a type when the first
\* shape is convex.
C12_UnknownPairAsserts ==
    /\ (request.op = "sCollideShapeVsShape" /\ BaseType(request.shape1) = "User") =>
          received.fn = "JPH_ASSERT"
    /\ (request.op = "sCollideShapeVsShape" /\ BaseType(request.shape1) = "Convex"
            /\ BaseType(request.shape2) = "User") =>
          received.fn = "JPH_ASSERT"
    /\ (request.op = "sCastShapeVsShape" /\ BaseType(request.shapeCast.mShape) = "User"
            /\ request.args.filter) =>
          received.fn = "JPH_ASSERT"



\* C13: when the shape filter rejects the pair of sub shape IDs,
\* sCastShapeVsShape ends in no call at all, neither of a routine nor of the
\* assert, whatever the cast shape and the shape are and however many
\* ScaledShapes are around them.
C13_RejectedCastCallsNothing ==
    (request.op = "sCastShapeVsShape" /\ ~request.args.filter) =>
        received = NothingReceived

\* A rejected cast of a convex shape inside two ScaledShapes against a
\* ScaledShape
C13_Witness ==
    /\ request.op = "sCastShapeVsShape"
    /\ ~request.args.filter
    /\ request.shapeCast.mShape.type = "Scaled"
    /\ request.shapeCast.mShape.mInnerShape.type = "Scaled"
    /\ BaseType(request.shapeCast.mShape) = "Convex"
    /\ request.shape.type = "Scaled"
    /\ received = NothingReceived



\* The shape inside all the ScaledShapes around it
RECURSIVE InnerMost(_)
InnerMost(inShape) == IF inShape.type = "Scaled" THEN InnerMost(inShape.mInnerShape) ELSE inShape

\* inScale times the scale of every ScaledShape around the shape
RECURSIVE ScaleProduct(_, _)
ScaleProduct(inShape, inScale) ==
    IF inShape.type = "Scaled"
    THEN Vec3Mul(inShape.mScale, ScaleProduct(inShape.mInnerShape, inScale))
    ELSE inScale

\* C14: the dispatch takes every ScaledShape off the first shape and off the
\* cast shape, and off the second shape when the first one is convex: the
\* routine it calls gets the shape inside all of them and the incoming scale
\* times the scale of each of them, and gets the other shape, its scale, the
\* transforms, the sub shape ID creators, the settings and the collector as
\* they came in. (A shape cast against a ScaledShape takes the ScaledShapes off
\* the second shape in ScaledShape::CastShape.)
C14_ScaledShapesAreUnwrapped ==
    /\ (request.op = "sCollideShapeVsShape" /\ BaseType(request.shape1) \in HandedOnTypes) =>
          /\ received.fn \notin {"JPH_ASSERT", "none"}
          /\ received.shape1 = InnerMost(request.shape1)
          /\ received.scale1 = ScaleProduct(request.shape1, request.scale1)
          /\ received.shape2 = request.shape2
          /\ received.scale2 = request.scale2
          /\ received.args = request.args
    /\ (request.op = "sCollideShapeVsShape" /\ BaseType(request.shape1) = "Convex"
            /\ BaseType(request.shape2) # "User") =>
          /\ received.fn \notin {"JPH_ASSERT", "none"}
          /\ received.shape1 = InnerMost(request.shape1)
          /\ received.scale1 = ScaleProduct(request.shape1, request.scale1)
          /\ received.shape2 = InnerMost(request.shape2)
          /\ received.scale2 = ScaleProduct(request.shape2, request.scale2)
          /\ received.args = request.args
    /\ (request.op = "sCastShapeVsShape" /\ request.args.filter
            /\ BaseType(request.shapeCast.mShape) \in HandedOnTypes \cup {"Convex"}) =>
          /\ received.fn \notin {"JPH_ASSERT", "none"}
          /\ received.shapeCast =
                ShapeCast(InnerMost(request.shapeCast.mShape),
                          ScaleProduct(request.shapeCast.mShape, request.shapeCast.mScale),
                          request.shapeCast.mCenterOfMassStart, request.shapeCast.mDirection)
          /\ received.args = request.args
          /\ IF BaseType(request.shapeCast.mShape) = "Convex"
             THEN /\ received.shape = InnerMost(request.shape)
                  /\ received.scale = ScaleProduct(request.shape, request.scale)
             ELSE /\ received.shape = request.shape
                  /\ received.scale = request.scale

\* A convex shape inside two ScaledShapes collided with a height field inside
\* a ScaledShape: the routine got the products of the scales
C14_Witness ==
    /\ request.op = "sCollideShapeVsShape"
    /\ request.shape1 =
          ScaledShape(ScaledShape(LeafShape("Convex"), Vec3(2, 2, 2)), Vec3(1, 2, 1))
    /\ request.scale1 = Vec3(2, 2, 2)
    /\ request.shape2 = ScaledShape(LeafShape("HeightField"), Vec3(-1, 1, 1))
    /\ request.scale2 = Vec3(1, 2, 1)
    /\ received.fn = "sCollideConvexVsHeightField"
    /\ received.shape1 = LeafShape("Convex")
    /\ received.scale1 = Vec3(4, 8, 4)
    /\ received.shape2 = LeafShape("HeightField")
    /\ received.scale2 = Vec3(-1, 2, 1)



\* C15: when the collector reports ShouldEarlyOut on entry to
\* sCollideShapeVsShape or sCastShapeVsShape, the dispatch calls no routine.
C15_EarlyOutOnEntryCallsNothing ==
    (request.op \in {"sCollideShapeVsShape", "sCastShapeVsShape"}
        /\ request.args.collector.mEarlyOutFraction <= -cFltMax) =>
        received.fn \in {"none", "JPH_ASSERT"}



\* ---------------------------------------------------------------------------
\* Claims about walking the tree of the height field
\* ---------------------------------------------------------------------------

\* The nodes at which the walk of the last CastRay called VisitRangeBlock: the
\* nodes above the level of the leaves
RangeBlockNodes ==
    { i \in 1..Len(query.out.nodes) :
        query.out.nodes[i].level < CountTrailingZeros(shape.mSampleCount \div cBlockSize) }

\* C16: WalkHeightField polls ShouldAbort after it has processed a node and
\* before it fetches the next one. No node is processed after the visitor has
\* reported ShouldAbort; when the visitor reports it before the walk starts,
\* the root node is still processed (VisitRangeBlock is called for it once),
\* no other node is processed and VisitTriangle is never called
C16_AbortIsPolledAfterEachNode ==
    (query.op = "CastRay") =>
        /\ \A i \in 2..Len(query.out.nodes) : ~query.out.nodes[i].aborted
        /\ (query.hitBefore.mFraction <= 0) =>
               /\ Len(query.out.nodes) = 1
               /\ query.out.nodes[1].aborted
               /\ RangeBlockNodes = {1}
               /\ query.out.visited = << >>

\* A CastRay that starts with a visitor that already reports ShouldAbort and
\* has processed the root node
C16_Witness ==
    /\ query.op = "CastRay"
    /\ query.hitBefore.mFraction <= 0
    /\ Len(query.out.nodes) = 1
    /\ query.out.nodes[1].aborted

\* A CastRay whose visitor starts to report ShouldAbort during the walk: the
\* walk stops at the node that found the hit
C16_WitnessAbortDuringWalk ==
    /\ query.op = "CastRay"
    /\ query.hitBefore.mFraction > 0
    /\ query.out.hit.mFraction <= 0
    /\ Len(query.out.nodes) >= 2
    /\ query.out.mTop >= 0

\* C16 as stated: with a visitor that reports ShouldAbort at the start neither
\* VisitRangeBlock nor VisitTriangle is called for any node
C16_AsStatedNothingIsVisitedOnAbortAtStart ==
    (query.op = "CastRay" /\ query.hitBefore.mFraction <= 0) =>
        /\ RangeBlockNodes = {}
        /\ query.out.visited = << >>



-----------------------------------------------------------------------------
(* HeightFieldShape::GetTrianglesStart / GetTrianglesNext: WalkHeightField  *)
(* with the HSGetTrianglesContext as its visitor. The context is made with  *)
(* the identity rotation, no translation and scale 1, so that the box is in *)
(* the space of the height field                                            *)

\* cGetTrianglesMinTrianglesRequested of Shape
cGetTrianglesMinTrianglesRequested == 32

\* One triangle handed out: its quad and its index in the quad
TriangleOf(inEntry) == [ x |-> inEntry.x, y |-> inEntry.y, t |-> inEntry.t ]

\* HSGetTrianglesContext::VisitTriangle: aborts when the buffer is full, else
\* stores the triangle
HSVisitTriangle(inVisitor, inEntry) ==
    IF inVisitor.mNumTrianglesFound + 1 > inVisitor.mMaxTrianglesRequested
    THEN [ inVisitor EXCEPT !.mShouldAbort = TRUE ]
    ELSE [ inVisitor EXCEPT !.mTriangleVertices = Append(@, TriangleOf(inEntry)),
                            !.mNumTrianglesFound = @ + 1 ]

\* The loop over the triangles of a leaf: VisitTriangle is called for every
\* triangle of the leaf, also after the visitor has set mShouldAbort
RECURSIVE HSVisitTriangles(_, _)
HSVisitTriangles(inVisitor, inTriangles) ==
    IF inTriangles = << >> THEN inVisitor
    ELSE HSVisitTriangles(HSVisitTriangle(inVisitor, inTriangles[1]), Tail(inTriangles))

\* AABox4VsBox for one box and a mLocalBox without rotation: the boxes overlap
\* when their ranges overlap along the three axes
AABoxVsBox(inBox, inMinX, inMinY, inMinZ, inMaxX, inMaxY, inMaxZ) ==
    /\ inBox.mMin[1] <= inMaxX /\ inMinX <= inBox.mMax[1]
    /\ inBox.mMin[2] <= inMaxY /\ inMinY <= inBox.mMax[2]
    /\ inBox.mMin[3] <= inMaxZ /\ inMinZ <= inBox.mMax[3]

\* The 4 children of the node (inLevel, inX, inY) that collide with inBox, in
\* the order of their index. The lowest height of a child without collision
\* lies above every height of the field; with a scale of 1 along y it is
\* held as cFltMax
HSCollidingChildren(inShape, inBox, inMaxLevel, inLevel, inX, inY) ==
    LET block == inShape.mRangeBlocks[GridOffset(inLevel) + (Pow2(inLevel) * inY) + inX]
        internal_cell_size == cBlockSize * Pow2(inMaxLevel - inLevel - 1)
        count_min_1 == inShape.mSampleCount - 1
        Collides(i) ==
            AABoxVsBox(inBox,
                GridPosition(inShape, 1, internal_cell_size * ((2 * inX) + ((i - 1) % 2))),
                IF block.mMin[i - 1] > block.mMax[i - 1] /\ inShape.mScale[2].den = 1
                THEN cFltMax
                ELSE HeightOf(inShape, cMaxHeightValue8 * block.mMin[i - 1]),
                GridPosition(inShape, 3, internal_cell_size * ((2 * inY) + ((i - 1) \div 2))),
                GridPosition(inShape, 1, MinOf(internal_cell_size * ((2 * inX) + ((i - 1) % 2) + 1), count_min_1)),
                HeightOf(inShape, cMaxHeightValue8 * block.mMax[i - 1]),
                GridPosition(inShape, 3, MinOf(internal_cell_size * ((2 * inY) + ((i - 1) \div 2) + 1), count_min_1)))
    IN  SelectSeq([ i \in 1 .. 4 |->
                      [ level |-> inLevel + 1, x |-> (2 * inX) + ((i - 1) % 2),
                        y |-> (2 * inY) + ((i - 1) \div 2), distance |-> 0, index |-> i ] ],
                  LAMBDA e : Collides(e.index))

\* HSGetTrianglesContext::VisitRangeBlock: UVec4::sSort4True moves the
\* colliding children to the front in their order, CountTrues counts them
HSVisitRangeBlock(inColliding) ==
    [ entries     |-> [ i \in 1 .. 4 |->
                          IF i <= Len(inColliding)
                          THEN StackEntry(inColliding[i].level, inColliding[i].x, inColliding[i].y, 0)
                          ELSE ZeroEntry ],
      num_results |-> Len(inColliding) ]

\* The walk enters the body of its loop for inNode: mNodes records the node
HSEnterNode(inContext, inNode) ==
    [ inContext EXCEPT
        !.mNodes = Append(@, [ level |-> inNode.level, x |-> inNode.x, y |-> inNode.y,
                               top |-> inContext.mTop,
                               aborted |-> inContext.mVisitor.mShouldAbort ]) ]

\* The body of the loop of WalkHeightField for the node at mTop, up to the
\* test of ShouldAbort
HSVisitNode(inShape, inContext, inMaxLevel, inNode) ==
    IF inNode.level >= inMaxLevel
    THEN [ inContext EXCEPT
             !.mVisitor = HSVisitTriangles(@, LeafTriangles(inShape, inNode.x, inNode.y)) ]
    ELSE PushChildren(inContext,
                      HSVisitRangeBlock(
                          HSCollidingChildren(inShape, inContext.mLocalBox, inMaxLevel,
                                              inNode.level, inNode.x, inNode.y)))

\* DecodingContext::WalkHeightField with the HSGetTrianglesContext: when the
\* visitor aborts the loop is left with mTop at the node just processed;
\* ShouldVisitRangeBlock is true of every node, so the next node is the one
\* below
RECURSIVE HSWalkHeightField(_, _)
HSWalkHeightField(inShape, inContext) ==
    LET visited == HSVisitNode(inShape, HSEnterNode(inContext, inContext.mStack[inContext.mTop + 1]),
                               CountTrailingZeros(inShape.mSampleCount \div cBlockSize),
                               inContext.mStack[inContext.mTop + 1])
    IN  IF visited.mVisitor.mShouldAbort THEN visited
        ELSE IF visited.mTop - 1 >= 0
        THEN HSWalkHeightField(inShape, [ visited EXCEPT !.mTop = @ - 1 ])
        ELSE [ visited EXCEPT !.mTop = @ - 1 ]

\* DecodingContext::IsDoneWalking
IsDoneWalking(inContext) == inContext.mTop < 0

\* GetTrianglesStart with the root one entry above the bottom of the stack
GetTrianglesStart_RootAboveBottom(inBox) ==
    [ mStack |-> << ZeroEntry, ZeroEntry >>, mTop |-> 1, mMaxTop |-> 1, mNodes |-> << >>,
      mLocalBox |-> inBox,
      mVisitor |-> [ mMaxTrianglesRequested |-> 0, mNumTrianglesFound |-> 0,
                     mShouldAbort |-> FALSE, mTriangleVertices |-> << >> ] ]

\* HeightFieldShape::GetTrianglesStart: the context with the root on the
\* stack of mDecodeCtx
GetTrianglesStart(inBox) ==
    [ mStack |-> << ZeroEntry >>, mTop |-> 0, mMaxTop |-> 0, mNodes |-> << >>,
      mLocalBox |-> inBox,
      mVisitor |-> [ mMaxTrianglesRequested |-> 0, mNumTrianglesFound |-> 0,
                     mShouldAbort |-> FALSE, mTriangleVertices |-> << >> ] ]

\* GetTrianglesNext without the reset of mNumTrianglesFound
GetTrianglesNext_KeepsCount(inShape, inContext, inMaxTrianglesRequested) ==
    IF IsDoneWalking(inContext)
    THEN [ inContext EXCEPT !.mVisitor.mNumTrianglesFound = 0,
                            !.mVisitor.mTriangleVertices = << >> ]
    ELSE HSWalkHeightField(inShape,
             [ inContext EXCEPT
                 !.mNodes = << >>,
                 !.mVisitor = [ mMaxTrianglesRequested |-> inMaxTrianglesRequested,
                                mNumTrianglesFound |-> inContext.mVisitor.mNumTrianglesFound,
                                mShouldAbort |-> FALSE,
                                mTriangleVertices |-> << >> ] ])

\* HeightFieldShape::GetTrianglesNext: the context after the call; the
\* triangles written to outTriangleVertices and the return value are
\* mTriangleVertices and mNumTrianglesFound of its visitor
GetTrianglesNext(inShape, inContext, inMaxTrianglesRequested) ==
    IF IsDoneWalking(inContext)
    THEN [ inContext EXCEPT !.mVisitor.mNumTrianglesFound = 0,
                            !.mVisitor.mTriangleVertices = << >> ]
    ELSE HSWalkHeightField(inShape,
             [ inContext EXCEPT
                 !.mNodes = << >>,
                 !.mVisitor = [ mMaxTrianglesRequested |-> inMaxTrianglesRequested,
                                mNumTrianglesFound |-> 0,
                                mShouldAbort |-> FALSE,
                                mTriangleVertices |-> << >> ] ])

\* The boxes of the model: all of space, and a box over the quads along the
\* first two rows of samples
Boxes(inN) ==
    { [ mMin |-> << -cFltMax, -cFltMax, -cFltMax >>, mMax |-> << cFltMax, cFltMax, cFltMax >> ],
      [ mMin |-> << 0, -cFltMax, 0 >>, mMax |-> << 4 * inN, cFltMax, 6 >> ] }

\* The buffer sizes of the calls: the smallest one allowed, one that is not a
\* multiple of the size of a leaf, and one that holds every triangle
MaxTrianglesRequested ==
    { cGetTrianglesMinTrianglesRequested, cGetTrianglesMinTrianglesRequested + 5,
      2 * MaxSampleCount * MaxSampleCount }

\* Height arrays with three different heights in the last leaf block: the
\* sample in the centre, which the blocks before it share, lies between the
\* lowest and the highest sample of its own block
RoundingArrays(inN) ==
    { [i \in 0 .. inN * inN - 1 |->
            IF i = ((inN \div 2) * inN) + (inN \div 2) THEN 1
            ELSE IF i = (((inN \div 2) + 1) * inN) + (inN \div 2) + 1 THEN MaxHeight + 1
            ELSE 0] }

\* The fields whose triangles are enumerated
GetTrianglesSettings ==
    QuerySettings
        \cup UNION { { MakeSettings(n, h, EmptyArray, EmptyArray) : h \in RoundingArrays(n) } : n \in {4, 8} }

InitGetTriangles ==
    /\ InitLockVars
    /\ InitDispatchVars
    /\ InitNarrowPhaseVars
    /\ cBlockSize \in BlockSizes
    /\ settings \in GetTrianglesSettings
    /\ result = EmptyResult
    /\ shape = NoShape
    /\ query = NoQuery
    /\ stream = << >>
    /\ restored = NoShape

\* GetTrianglesStart on the constructed shape. The query records the
\* triangles of every call of GetTrianglesNext (out), the buffer sizes
\* (requested) and the last return value
CallGetTrianglesStart ==
    /\ result.state = "shape"
    /\ query = NoQuery
    /\ \E box \in Boxes(shape.mSampleCount) :
          query' = [ op |-> "GetTriangles", context |-> GetTrianglesStart(box),
                     out |-> << >>, requested |-> << >>, returned |-> -1 ]
    /\ UNCHANGED <<cBlockSize, settings, result, shape, stream, restored>>
    /\ UNCHANGED <<dispatchVars, npqVars, lockVars>>

\* One more call of GetTrianglesNext with the same context, until a call
\* returns 0
CallGetTrianglesNext ==
    /\ query.op = "GetTriangles"
    /\ query.returned # 0
    /\ \E n \in MaxTrianglesRequested :
          query' = [ query EXCEPT
                       !.context = GetTrianglesNext(shape, @, n),
                       !.out = @ \o GetTrianglesNext(shape, query.context, n).mVisitor.mTriangleVertices,
                       !.requested = Append(@, n),
                       !.returned = GetTrianglesNext(shape, query.context, n).mVisitor.mNumTrianglesFound ]
    /\ UNCHANGED <<cBlockSize, settings, result, shape, stream, restored>>
    /\ UNCHANGED <<dispatchVars, npqVars, lockVars>>

NextGetTriangles ==
    \/ Create
    \/ CallGetTrianglesStart
    \/ CallGetTrianglesNext

SpecGetTriangles == InitGetTriangles /\ [][NextGetTriangles]_vars

\* CallGetTrianglesNext is enabled (every call appends to query.requested, so
\* no call leaves the state unchanged)
CanCallGetTrianglesNext == query.op = "GetTriangles" /\ query.returned # 0

\* Weak fairness of CallGetTrianglesNext, spelled out with its enabling
\* condition: the only steps from one state of an enumeration to another are
\* calls of GetTrianglesNext
CallerGoesOn ==
    \/ []<>(~CanCallGetTrianglesNext)
    \/ []<><<query.op = "GetTriangles" /\ query'.op = "GetTriangles">>_vars

\* The caller starts an enumeration on a constructed shape and goes on
\* calling GetTrianglesNext for as long as the last call did not return 0
SpecGetTrianglesFair == SpecGetTriangles /\ WF_vars(CallGetTrianglesStart) /\ CallerGoesOn

\* The triangles one walk without a limit to the buffer hands out for the box
\* of the query
UninterruptedWalk ==
    GetTrianglesNext(shape, GetTrianglesStart(query.context.mLocalBox),
                     2 * MaxSampleCount * MaxSampleCount).mVisitor.mTriangleVertices

\* How often inTriangle is among the triangles of inTriangles
Occurrences(inTriangles, inTriangle) ==
    Cardinality({ i \in 1 .. Len(inTriangles) : inTriangles[i] = inTriangle })

\* C17: (as stated) once GetTrianglesNext has returned 0, the calls made with
\* one context have handed out every triangle of the uninterrupted walk
\* exactly once, whatever buffer sizes of at least
\* cGetTrianglesMinTrianglesRequested the calls were made with
C17_EveryTriangleExactlyOnce ==
    (query.op = "GetTriangles" /\ query.returned = 0) =>
        /\ Len(query.out) = Len(UninterruptedWalk)
        /\ \A i \in 1 .. Len(UninterruptedWalk) :
               Occurrences(query.out, UninterruptedWalk[i]) = 1

\* No triangle of the uninterrupted walk is lost by the calls
C17_NoTriangleIsLost ==
    (query.op = "GetTriangles" /\ query.returned = 0) =>
        \A i \in 1 .. Len(UninterruptedWalk) :
            Occurrences(query.out, UninterruptedWalk[i]) >= 1



\* The last call of GetTrianglesNext was the first one with its context, was
\* made with the box that every child collides with, and walked the whole
\* tree without the visitor aborting
IsCompleteWalk ==
    /\ query.op = "GetTriangles"
    /\ Len(query.requested) = 1
    /\ query.context.mLocalBox.mMin = << -cFltMax, -cFltMax, -cFltMax >>
    /\ query.context.mLocalBox.mMax = << cFltMax, cFltMax, cFltMax >>
    /\ ~query.context.mVisitor.mShouldAbort
    /\ IsDoneWalking(query.context)

\* The three vertices of triangle inTriangle of quad (inX, inY) have collision
IsCollidableTriangle(inX, inY, inTriangle) ==
    /\ ~IsNoCollision(shape, inX, inY)
    /\ ~IsNoCollision(shape, inX + 1, inY + 1)
    /\ IF inTriangle = 0 THEN ~IsNoCollision(shape, inX, inY + 1)
                         ELSE ~IsNoCollision(shape, inX + 1, inY)

\* The leaf blocks the last walk has entered, in its order
LeavesEntered ==
    SelectSeq(query.context.mNodes,
              LAMBDA n : n.level >= CountTrailingZeros(shape.mSampleCount \div cBlockSize))

\* C18: a complete walk whose visitor takes every child and never aborts
\* calls VisitTriangle exactly once for every triangle of every quad (x, y),
\* 0 <= x, y <= mSampleCount - 2, whose three vertices have collision, and
\* never for a triangle with a vertex without collision; every leaf block is
\* entered once, and a quad is generated by the leaf block it lies in only
C18_CollidableTrianglesVisitedOnce ==
    IsCompleteWalk =>
        /\ \A x, y \in 0 .. shape.mSampleCount - 2 : \A t \in 0 .. 1 :
               Occurrences(query.out, [ x |-> x, y |-> y, t |-> t ])
                   = IF IsCollidableTriangle(x, y, t) THEN 1 ELSE 0
        /\ \A i \in 1 .. Len(query.out) :
               /\ query.out[i].x \in 0 .. shape.mSampleCount - 2
               /\ query.out[i].y \in 0 .. shape.mSampleCount - 2
               /\ query.out[i].t \in 0 .. 1
        /\ Len(LeavesEntered) = (shape.mSampleCount \div cBlockSize) * (shape.mSampleCount \div cBlockSize)
        /\ \A i, j \in 1 .. Len(LeavesEntered) :
               (LeavesEntered[i].x = LeavesEntered[j].x /\ LeavesEntered[i].y = LeavesEntered[j].y)
                   => i = j

\* A complete walk of a field of 8 x 8 samples with a sample without
\* collision: a triangle left out next to triangles handed out
C18_Witness ==
    /\ IsCompleteWalk
    /\ shape.mSampleCount = 8
    /\ \E x, y \in 0 .. 6 : \E t \in 0 .. 1 : ~IsCollidableTriangle(x, y, t)
    /\ \E x, y \in 0 .. 6 : \E t \in 0 .. 1 :
           /\ IsCollidableTriangle(x, y, t)
           /\ Occurrences(query.out, [ x |-> x, y |-> y, t |-> t ]) = 1



\* ---------------------------------------------------------------------------
\* Claims about the sub shape IDs of the height field
\* ---------------------------------------------------------------------------

\* C19: for x, y below the sample count and t in {0, 1}, DecodeSubShapeID of
\* EncodeSubShapeID with an empty creator gives back x, y and t with an empty
\* remainder; the value (x + y * mSampleCount) * 2 + t is below 2 to the
\* power of GetSubShapeIDBits() = 2 * log2(mSampleCount) + 1, and no other
\* triangle has the same ID
C19_SubShapeIDRoundTrip ==
    (query.op = "DecodeSubShapeID") =>
        /\ query.out.outX = query.x
        /\ query.out.outY = query.y
        /\ query.out.outTriangle = query.t
        /\ query.out.remainder = EmptySubShapeID
        /\ \E k \in 0 .. 15 :
               /\ Pow2(k) = shape.mSampleCount
               /\ GetSubShapeIDBitsOf(shape.mSampleCount) = (2 * k) + 1
               /\ ((query.x + (query.y * shape.mSampleCount)) * 2) + query.t < Pow2((2 * k) + 1)
        /\ \A x, y \in 0 .. shape.mSampleCount - 1 : \A t \in 0 .. 1 :
               (EncodeSubShapeIDWith(shape, NewSubShapeIDCreator, x, y, t) = query.id)
                   => (x = query.x /\ y = query.y /\ t = query.t)

\* The round trip of the highest ID of a field of 8 x 8 samples: all 7 bits
\* of the ID are set
C19_Witness ==
    /\ query.op = "DecodeSubShapeID"
    /\ shape.mSampleCount = 8
    /\ query.x = 7 /\ query.y = 7 /\ query.t = 1
    /\ query.out.outX = 7 /\ query.out.outY = 7 /\ query.out.outTriangle = 1



-----------------------------------------------------------------------------
(* BodyLockInterfaceLocking: the batch locking functions. They hand the     *)
(* mask on to the BodyManager, which keeps an array of shared mutexes; a    *)
(* body belongs to the mutex its index hashes to                            *)

\* The threads that lock bodies
NumLockThreads == 2

LockThreads == 1 .. NumLockThreads

\* The lists of body indices handed to GetMutexMask: in any order, with a body
\* twice, with bodies that hash to the same mutex
LockBodyLists ==
    { << 1 >>, << 0, 1 >>, << 1, 0, 1 >>, << 0, NumBodyMutexes, NumBodyMutexes - 1 >> }

\* BodyManager::GetMutexMask: one bit per mutex, set when a body of the list
\* belongs to the mutex; the mask is held as the set of the indices
BodyManagerGetMutexMask(inBodies) ==
    { GetMutexIndex(inBodies[i]) : i \in 1 .. Len(inBodies) }

\* BodyLockInterfaceNoLock::GetMutexMask
GetMutexMask_NoLock(inBodies) == {}

\* BodyLockInterfaceLocking::GetMutexMask
GetMutexMask(inBodies) == BodyManagerGetMutexMask(inBodies)

\* The mutexes a thread holds
HeldBy(inThread) == { inThread.held[i] : i \in 1 .. Len(inThread.held) }

\* SharedMutex::try_lock_shared would succeed: no other thread holds the mutex
\* exclusively
CanLockShared(inThreads, inSelf, inMutex) ==
    \A t \in LockThreads \ {inSelf} :
        ~(inThreads[t].mode = "write" /\ inMutex \in HeldBy(inThreads[t]))

\* SharedMutex::try_lock would succeed: no other thread holds the mutex
CanLock(inThreads, inSelf, inMutex) ==
    \A t \in LockThreads \ {inSelf} : inMutex \notin HeldBy(inThreads[t])

\* The next mutex the loop over the bits of the mask locks: the lowest index
\* of the mask that is not locked yet
NextMutex(inThread) == SetMin(inThread.mask \ HeldBy(inThread))

\* A thread that has not asked for a mask yet
IdleThread == [ pc |-> "idle", mode |-> "none", bodies |-> << >>, mask |-> {}, held |-> << >> ]

InitBodyLock ==
    /\ InitDispatchVars
    /\ InitNarrowPhaseVars
    /\ cBlockSize = 2
    /\ settings = MakeSettings(0, EmptyArray, EmptyArray, EmptyArray)
    /\ result = EmptyResult
    /\ shape = NoShape
    /\ query = NoQuery
    /\ stream = << >>
    /\ restored = NoShape
    /\ threads = [ t \in LockThreads |-> IdleThread ]

\* A thread computes the mask for a list of bodies it is going to read or to
\* write
CallGetMutexMask(inSelf) ==
    /\ threads[inSelf].pc = "idle"
    /\ \E bodies \in LockBodyLists, mode \in {"read", "write"} :
          threads' = [ threads EXCEPT ![inSelf] =
                         [ pc |-> "locking", mode |-> mode, bodies |-> bodies,
                           mask |-> GetMutexMask(bodies), held |-> << >> ] ]
    /\ UNCHANGED <<hfVars, dispatchVars, npqVars>>

\* The thread goes on to the next bit of the mask, and has returned from the
\* lock function when no bit is left
LockStep(inSelf, inMutex) ==
    threads' = [ threads EXCEPT
                   ![inSelf].held = Append(@, inMutex),
                   ![inSelf].pc = IF threads[inSelf].mask \ HeldBy(threads[inSelf]) = {inMutex}
                                  THEN "locked" ELSE "locking" ]

\* BodyLockInterfaceLocking::LockRead(MutexMask): one step locks the next mutex
\* of the mask shared, and blocks as long as another thread holds it
\* exclusively
LockRead(inSelf) ==
    /\ threads[inSelf].pc = "locking"
    /\ threads[inSelf].mode = "read"
    /\ IF threads[inSelf].mask = {}
       THEN threads' = [ threads EXCEPT ![inSelf].pc = "locked" ]
       ELSE /\ CanLockShared(threads, inSelf, NextMutex(threads[inSelf]))
            /\ LockStep(inSelf, NextMutex(threads[inSelf]))
    /\ UNCHANGED <<hfVars, dispatchVars, npqVars>>

\* BodyLockInterfaceLocking::LockWrite(MutexMask): one step locks the next
\* mutex of the mask, and blocks as long as another thread holds it
LockWrite(inSelf) ==
    /\ threads[inSelf].pc = "locking"
    /\ threads[inSelf].mode = "write"
    /\ IF threads[inSelf].mask = {}
       THEN threads' = [ threads EXCEPT ![inSelf].pc = "locked" ]
       ELSE /\ CanLock(threads, inSelf, NextMutex(threads[inSelf]))
            /\ LockStep(inSelf, NextMutex(threads[inSelf]))
    /\ UNCHANGED <<hfVars, dispatchVars, npqVars>>

\* BodyLockInterfaceLocking::UnlockRead(MutexMask): every mutex of the mask is
\* unlocked; unlocking does not block
UnlockRead(inSelf) ==
    /\ threads[inSelf].pc = "locked"
    /\ threads[inSelf].mode = "read"
    /\ threads' = [ threads EXCEPT ![inSelf].pc = "done", ![inSelf].held = << >> ]
    /\ UNCHANGED <<hfVars, dispatchVars, npqVars>>

\* BodyLockInterfaceLocking::UnlockWrite(MutexMask)
UnlockWrite(inSelf) ==
    /\ threads[inSelf].pc = "locked"
    /\ threads[inSelf].mode = "write"
    /\ threads' = [ threads EXCEPT ![inSelf].pc = "done", ![inSelf].held = << >> ]
    /\ UNCHANGED <<hfVars, dispatchVars, npqVars>>

\* The steps of one thread
ThreadStep(inSelf) ==
    \/ CallGetMutexMask(inSelf)
    \/ LockRead(inSelf)
    \/ LockWrite(inSelf)
    \/ UnlockRead(inSelf)
    \/ UnlockWrite(inSelf)

NextBodyLock == \E self \in LockThreads : ThreadStep(self)

SpecBodyLock == InitBodyLock /\ [][NextBodyLock]_vars

\* Every thread that can take a step is scheduled: a thread that waits for a
\* mutex goes on once the mutex stays free, a thread that holds its locks
\* unlocks them
SpecBodyLockFair ==
    SpecBodyLock /\ \A self \in LockThreads : WF_vars(ThreadStep(self))

\* ---------------------------------------------------------------------------
\* Claims about the locking of bodies
\* ---------------------------------------------------------------------------

\* The mutexes a thread holds were locked in the order of their index, each
\* of them once
LockedInIndexOrder ==
    \A t \in LockThreads :
        \A i, j \in 1 .. Len(threads[t].held) :
            i < j => threads[t].held[i] < threads[t].held[j]

\* A thread that has returned from the lock function holds the mutex of each
\* of its bodies, and no mutex is held exclusively by one thread and held by
\* another
LocksAreHeld ==
    /\ \A t \in LockThreads :
           (threads[t].pc = "locked") =>
               \A i \in 1 .. Len(threads[t].bodies) :
                   GetMutexIndex(threads[t].bodies[i]) \in HeldBy(threads[t])
    /\ \A t, u \in LockThreads :
           (t # u /\ threads[t].mode = "write")
               => HeldBy(threads[t]) \cap HeldBy(threads[u]) = {}

\* C20: batch body locking is free of deadlock: of threads that each compute
\* a mask with GetMutexMask over a list of bodies (overlapping, colliding in
\* the hash), lock the mask for reading or writing and unlock it later, every
\* thread that has started to lock gets all its locks; the mutexes are locked
\* in the order of their index and a mutex that several bodies of the list
\* share is locked once
C20_BatchLockingIsDeadlockFree ==
    /\ [](LockedInIndexOrder /\ LocksAreHeld)
    /\ \A t \in LockThreads : (threads[t].pc = "locking") ~> (threads[t].pc = "locked")

\* Thread 1 holds mutex 0 for a list with two bodies on that mutex and waits
\* for mutex 1, which thread 2 holds exclusively
C20_Witness ==
    /\ threads # << >>
    /\ threads[1].pc = "locking"
    /\ threads[1].bodies = << 0, NumBodyMutexes, NumBodyMutexes - 1 >>
    /\ threads[1].held = << 0 >>
    /\ threads[2].pc = "locked"
    /\ threads[2].mode = "write"
    /\ threads[2].held = << 1 >>



\* ---------------------------------------------------------------------------
\* Claims about the locks of a NarrowPhaseQuery
\* ---------------------------------------------------------------------------

\* How many of the first inCount events of the operation have the operation
\* inOp on the mutex inMutex
EventCount(inOp, inMutex, inCount) ==
    Cardinality({ i \in 1 .. inCount : log.events[i].op = inOp /\ log.events[i].mutex = inMutex })

\* The mutex inMutex is locked shared after the first inCount events
IsLockedAfter(inMutex, inCount) ==
    EventCount("LockRead", inMutex, inCount) > EventCount("UnlockRead", inMutex, inCount)

\* C21: during an operation of the NarrowPhaseQuery no body lock is held
\* while the query on the shape of a body or the collector of the caller
\* runs: the mutex of a candidate is locked shared, its transformed shape is
\* copied, and the mutex is unlocked before the query on the copy starts;
\* no mutex is locked for writing
C21_NoLockHeldDuringNarrowPhase ==
    /\ \A i \in 1 .. Len(log.events) :
           /\ log.events[i].op \in {"LockRead", "GetTransformedShape", "UnlockRead", "Query", "AddHit"}
           /\ (log.events[i].op \in {"Query", "AddHit"}) =>
                  \A m \in 0 .. NumBodyMutexes - 1 : ~IsLockedAfter(m, i - 1)
           /\ (log.events[i].op = "GetTransformedShape") =>
                  /\ IsLockedAfter(log.events[i].mutex, i - 1)
                  /\ i + 2 <= Len(log.events)
                  /\ log.events[i + 1].op = "UnlockRead"
                  /\ log.events[i + 1].mutex = log.events[i].mutex
                  /\ log.events[i + 2].op = "Query"
                  /\ log.events[i + 2].body = log.events[i].body
    /\ \A m \in 0 .. NumBodyMutexes - 1 : ~IsLockedAfter(m, Len(log.events))

\* An operation that has locked the mutexes of two bodies one after the other
\* and has handed a hit of the second body to the collector of the caller
C21_Witness ==
    /\ Len(log.events) >= 7
    /\ log.events[1].op = "LockRead"
    /\ log.events[4].op = "Query"
    /\ log.events[5].op = "LockRead"
    /\ log.events[5].body # log.events[1].body
    /\ log.events[Len(log.events)].op = "AddHit"



-----------------------------------------------------------------------------
(* Two queries that walk one height field at the same time. Each query has  *)
(* its own DecodingContext and visitor; one step of a query is one pass     *)
(* through the body of the loop of WalkHeightField                          *)

\* The queries that run at the same time
Walkers == 1 .. 2

\* The end of the body of the loop for the visitor of CastRay, after the
\* node was visited
RayWalkStepEnd(inVisited) ==
    IF ShouldAbort(inVisited.mVisitor) THEN inVisited
    ELSE [ inVisited EXCEPT !.mTop = NextNode(inVisited.mStack, inVisited.mVisitor, @ - 1) ]

\* One pass through the body of the loop of WalkHeightField for the visitor of
\* CastRay
RayWalkStep(inShape, inRay, inContext) ==
    RayWalkStepEnd(VisitNode(inShape, inRay,
                             EnterNode(inContext, inContext.mStack[inContext.mTop + 1]),
                             CountTrailingZeros(inShape.mSampleCount \div cBlockSize),
                             inContext.mStack[inContext.mTop + 1]))

\* The end of the body of the loop for the HSGetTrianglesContext
HSWalkStepEnd(inVisited) ==
    IF inVisited.mVisitor.mShouldAbort THEN inVisited
    ELSE [ inVisited EXCEPT !.mTop = @ - 1 ]

\* One pass through the body of the loop of WalkHeightField for the
\* HSGetTrianglesContext
HSWalkStep(inShape, inContext) ==
    HSWalkStepEnd(HSVisitNode(inShape,
                              HSEnterNode(inContext, inContext.mStack[inContext.mTop + 1]),
                              CountTrailingZeros(inShape.mSampleCount \div cBlockSize),
                              inContext.mStack[inContext.mTop + 1]))

\* The loop of WalkHeightField is left: the visitor aborts or the stack is
\* empty
HasLeftLoop(inWalk) ==
    \/ inWalk.context.mTop < 0
    \/ IF inWalk.kind = "CastRay" THEN ShouldAbort(inWalk.context.mVisitor)
                                  ELSE inWalk.context.mVisitor.mShouldAbort

\* One step of a query: it reads the shape and changes its own context
StepOf(inShape, inWalk) ==
    IF inWalk.kind = "CastRay"
    THEN [ inWalk EXCEPT !.context = RayWalkStep(inShape, inWalk.ray, @), !.steps = @ + 1 ]
    ELSE [ inWalk EXCEPT !.context = HSWalkStep(inShape, @), !.steps = @ + 1 ]

\* A step of a walk whose stack top is a field of the shape: the step of one
\* query moves the stack top of every query for which it points at an entry
\* of the stack of that query
WalkStep_SharedTop(inShape, inWalks, inSelf) ==
    [ w \in Walkers |->
        IF w = inSelf THEN StepOf(inShape, inWalks[inSelf])
        ELSE IF StepOf(inShape, inWalks[inSelf]).context.mTop \in 0 .. Len(inWalks[w].context.mStack) - 1
        THEN [ inWalks[w] EXCEPT !.context.mTop = StepOf(inShape, inWalks[inSelf]).context.mTop ]
        ELSE inWalks[w] ]

\* One step of the query inSelf: the contexts of the other queries stay as
\* they are
WalkStep(inShape, inWalks, inSelf) ==
    [ inWalks EXCEPT ![inSelf] = StepOf(inShape, @) ]

\* A CastRay that is about to walk
RayWalk(inRay, inHit) ==
    [ kind |-> "CastRay", ray |-> inRay, hitBefore |-> inHit, steps |-> 0,
      context |-> DecodingContext([ mFraction |-> inHit.mFraction, mSubShapeID2 |-> inHit.mSubShapeID2,
                                    mReturnValue |-> FALSE, mVisited |-> << >> ]) ]

\* A first GetTrianglesNext that is about to walk
TrianglesWalk(inBox, inMaxTrianglesRequested) ==
    [ kind |-> "GetTriangles", box |-> inBox, requested |-> inMaxTrianglesRequested, steps |-> 0,
      context |-> [ GetTrianglesStart(inBox) EXCEPT
                      !.mVisitor.mMaxTrianglesRequested = inMaxTrianglesRequested ] ]

\* The queries of the model: rays down onto quad (1, 1), with and without an
\* earlier hit, and the triangles in a box
ConcurrentWalks(inN) ==
    { RayWalk([ mOrigin |-> << p[1], 5, p[2] >>, mDirection |-> << 0, -10, 0 >> ], h) :
        p \in { <<5, 7>>, <<6, 6>> }, h \in InitialHits }
        \cup { TrianglesWalk(b, cGetTrianglesMinTrianglesRequested) : b \in Boxes(inN) }

\* What the query gives when it runs alone: the context after the whole walk
WalkAlone(inShape, inWalk) ==
    IF inWalk.kind = "CastRay"
    THEN WalkHeightField(inShape, inWalk.ray, RayWalk(inWalk.ray, inWalk.hitBefore).context)
    ELSE GetTrianglesNext(inShape, GetTrianglesStart(inWalk.box), inWalk.requested)

\* Fields with a hole next to quad (1, 1) and fields with a hill
ConcurrentSettings ==
    UNION { { MakeSettings(n, h, EmptyArray, EmptyArray) :
                h \in ThirdVertexHoleArrays(n)
                        \cup { [ i \in 0 .. n * n - 1 |-> IF i = n + 1 THEN MaxHeight ELSE 0 ] } } :
            n \in {4, 8} }

InitConcurrent ==
    /\ InitLockVars
    /\ InitDispatchVars
    /\ InitNarrowPhaseVars
    /\ cBlockSize \in BlockSizes
    /\ settings \in ConcurrentSettings
    /\ result = EmptyResult
    /\ shape = NoShape
    /\ query = NoQuery
    /\ stream = << >>
    /\ restored = NoShape

\* Two queries start on the constructed shape
StartWalks ==
    /\ result.state = "shape"
    /\ query = NoQuery
    /\ \E w1, w2 \in ConcurrentWalks(shape.mSampleCount) :
          query' = [ op |-> "Concurrent", walks |-> [ w \in Walkers |-> IF w = 1 THEN w1 ELSE w2 ] ]
    /\ UNCHANGED <<cBlockSize, settings, result, shape, stream, restored>>
    /\ UNCHANGED <<dispatchVars, npqVars, lockVars>>

\* The query inSelf goes once through the body of its loop
StepWalk(inSelf) ==
    /\ query.op = "Concurrent"
    /\ query.walks[inSelf].steps = 0 \/ ~HasLeftLoop(query.walks[inSelf])
    /\ query' = [ query EXCEPT !.walks = WalkStep(shape, @, inSelf) ]
    /\ UNCHANGED <<cBlockSize, settings, result, shape, stream, restored>>
    /\ UNCHANGED <<dispatchVars, npqVars, lockVars>>

NextConcurrent ==
    \/ Create
    \/ StartWalks
    \/ \E self \in Walkers : StepWalk(self)

SpecConcurrent == InitConcurrent /\ [][NextConcurrent]_vars

\* ---------------------------------------------------------------------------
\* Claims about queries that run at the same time
\* ---------------------------------------------------------------------------

\* The query has taken a step and has left its loop
HasFinished(inWalk) == inWalk.steps > 0 /\ HasLeftLoop(inWalk)

C23_TopAndRightEdgesAreActive ==
    (query.op = "GetEdgeFlags") =>
        /\ (query.t = 0 /\ query.y = shape.mSampleCount - 2) => BitAnd(query.out, 2) # 0
        /\ (query.t = 1 /\ query.x = shape.mSampleCount - 2) => BitAnd(query.out, 2) # 0
        /\ \A p \in query.read : p[1] <= shape.mSampleCount - 2 /\ p[2] <= shape.mSampleCount - 2

\* The top edge is active in the flags of triangle 0 of the last row
C23_TopEdgeIsActive ==
    (query.op = "GetEdgeFlags" /\ query.t = 0 /\ query.y = shape.mSampleCount - 2)
        => BitAnd(query.out, 2) # 0

\* The right edge is active in the flags of triangle 1 of the last column
\* below the corner quad
C23_RightEdgeBelowCornerIsActive ==
    (query.op = "GetEdgeFlags" /\ query.t = 1 /\ query.x = shape.mSampleCount - 2
        /\ query.y < shape.mSampleCount - 2)
        => BitAnd(query.out, 2) # 0

\* The right edge of the corner quad is active
C23_RightEdgeOfCornerIsActive ==
    (query.op = "GetEdgeFlags" /\ query.t = 1 /\ query.x = shape.mSampleCount - 2
        /\ query.y = shape.mSampleCount - 2)
        => BitAnd(query.out, 2) # 0



\* ---------------------------------------------------------------------------
\* Claims about the stack of the walk
\* ---------------------------------------------------------------------------

\* mMaxLevel of the walks over the constructed shape
MaxLevelOfShape == CountTrailingZeros(shape.mSampleCount \div cBlockSize)

\* The bounds on one node that a walk entered: its stack index, its level and
\* its position, and the assertion at the push of its children
NodeIsBounded(inNode, inMaxLevel) ==
    /\ inNode.top <= 3 * inNode.level
    /\ inNode.level <= inMaxLevel
    /\ inNode.x < Pow2(inNode.level)
    /\ inNode.y < Pow2(inNode.level)
    /\ (inNode.level < inMaxLevel) => (inNode.top + 4 < cStackSize)

\* C24: the stack of the walk is bounded: a node of level L is only visited
\* at a stack index of at most 3 * L, so mTop + 4 < cStackSize holds at every
\* push (also for the highest level count the constructor lets through), the
\* level of a node never exceeds mMaxLevel, and x and y of a node of level L
\* are below 2^L
C24_WalkStackIsBounded ==
    /\ (3 * (cNumBitsXY - 1)) + 4 < cStackSize
    /\ (query.op = "GetTriangles") =>
          /\ query.context.mMaxTop <= (3 * (MaxLevelOfShape - 1)) + 4
          /\ \A i \in 1 .. Len(query.context.mNodes) :
                NodeIsBounded(query.context.mNodes[i], MaxLevelOfShape)

\* A walk that pushed 4 children at stack index 3 and entered a leaf of
\* level 2 at stack index 6
C24_Witness ==
    /\ query.op = "GetTriangles"
    /\ MaxLevelOfShape = 2
    /\ query.context.mMaxTop = 7
    /\ \E i \in 1 .. Len(query.context.mNodes) :
          query.context.mNodes[i].level = 2 /\ query.context.mNodes[i].top = 6

\* The same bounds for the walks of CastRay
C24_CastRayStackIsBounded ==
    (query.op = "CastRay") =>
        /\ query.out.mMaxTop <= (3 * (MaxLevelOfShape - 1)) + 4
        /\ \A i \in 1 .. Len(query.out.nodes) : NodeIsBounded(query.out.nodes[i], MaxLevelOfShape)



\* ---------------------------------------------------------------------------
\* Claims about the termination of GetTrianglesNext
\* ---------------------------------------------------------------------------

\* The number of nodes of the subtree of a node of level inLevel
SubtreeSize(inLevel, inMaxLevel) == (Pow2(2 * ((inMaxLevel - inLevel) + 1)) - 1) \div 3

\* The nodes a walk can still enter: those of the subtrees of the entries on
\* its stack up to mTop
RECURSIVE RemainingNodes(_, _, _)
RemainingNodes(inStack, inTop, inMaxLevel) ==
    IF inTop < 0 THEN 0
    ELSE SubtreeSize(inStack[inTop + 1].level, inMaxLevel)
             + RemainingNodes(inStack, inTop - 1, inMaxLevel)

\* A call of GetTrianglesNext that returns triangles leaves fewer nodes to
\* enter than there were before it
NonZeroCallAdvances ==
    (query.op = "GetTriangles" /\ query'.op = "GetTriangles" /\ query'.returned # 0)
        => RemainingNodes(query'.context.mStack, query'.context.mTop, MaxLevelOfShape)
              < RemainingNodes(query.context.mStack, query.context.mTop, MaxLevelOfShape)

\* C25: the paged enumeration of triangles terminates: every call of
\* GetTrianglesNext that does not return 0 strictly advances the walk, and a
\* caller that goes on calling with inMaxTrianglesRequested >=
\* cGetTrianglesMinTrianglesRequested eventually receives 0
C25_PagedEnumerationTerminates ==
    /\ [][NonZeroCallAdvances]_vars
    /\ (query.op = "GetTriangles") ~> (query.op = "GetTriangles" /\ query.returned = 0)

\* An enumeration that ended after a call that stopped inside the walk with a
\* full buffer and at least two calls that returned triangles
C25_Witness ==
    /\ query.op = "GetTriangles"
    /\ query.returned = 0
    /\ Len(query.requested) >= 4
    /\ query.requested[1] = cGetTrianglesMinTrianglesRequested
    /\ Len(query.out) > cGetTrianglesMinTrianglesRequested



\* ---------------------------------------------------------------------------
\* Claims about the pruning of the ray cast
\* ---------------------------------------------------------------------------

\* The fractions at which the ray meets the triangles of the field that the
\* walk can generate, cFltMax for a triangle it misses
TriangleFractions(inShape, inRay) ==
    { RayTriangle(inShape, inRay, x, y, t) :
        << x, y, t >> \in { e \in (0 .. inShape.mSampleCount - 2) \X (0 .. inShape.mSampleCount - 2) \X (0 .. 1) :
                              IsCollidableTriangle(e[1], e[2], e[3]) } }

\* The nodes i < j of the log of a walk are children of the same node
AreSiblings(inNodes, i, j) ==
    /\ inNodes[i].level >= 1
    /\ inNodes[i].level = inNodes[j].level
    /\ inNodes[i].x \div 2 = inNodes[j].x \div 2
    /\ inNodes[i].y \div 2 = inNodes[j].y \div 2

\* C26: the pruning of the single-hit CastRay never loses the closest hit:
\* the final ioHit.mFraction is the minimum of its initial value and the
\* fractions of all triangles of the field, mFraction never increases during
\* the walk, the children of a node are visited in the order of non-decreasing
\* distance of their boxes, and the call returns true exactly when the
\* fraction of some triangle is below the initial ioHit.mFraction
C26_PruningKeepsClosestHit ==
    (query.op = "CastRay") =>
        /\ query.out.hit.mFraction
              = SetMin(TriangleFractions(shape, query.ray) \cup { query.hitBefore.mFraction })
        /\ query.out.returned
              = (\E f \in TriangleFractions(shape, query.ray) : f < query.hitBefore.mFraction)
        /\ \A i \in 1 .. Len(query.out.nodes) :
              /\ query.out.nodes[i].fraction <= query.hitBefore.mFraction
              /\ query.out.hit.mFraction <= query.out.nodes[i].fraction
              /\ \A j \in i + 1 .. Len(query.out.nodes) :
                    /\ query.out.nodes[j].fraction <= query.out.nodes[i].fraction
                    /\ AreSiblings(query.out.nodes, i, j)
                          => query.out.nodes[i].distance <= query.out.nodes[j].distance

\* A cast that visited two children of a node and found a hit beyond the
\* origin of the ray in between, so that the fraction of the hit went down
C26_Witness ==
    /\ query.op = "CastRay"
    /\ query.out.returned
    /\ query.out.hit.mFraction > 0
    /\ \E i, j \in 1 .. Len(query.out.nodes) :
          /\ i < j
          /\ AreSiblings(query.out.nodes, i, j)
          /\ query.out.nodes[j].fraction < query.out.nodes[i].fraction



\* ---------------------------------------------------------------------------
\* Claims about the ranges of the leaf blocks and the decoded heights
\* ---------------------------------------------------------------------------

\* The samples at the three vertices of a triangle
TriangleVertices(inTriangle) ==
    { << inTriangle.x, inTriangle.y >>, << inTriangle.x + 1, inTriangle.y + 1 >>,
      IF inTriangle.t = 0 THEN << inTriangle.x, inTriangle.y + 1 >>
                          ELSE << inTriangle.x + 1, inTriangle.y >> }

\* The decoded height of the vertex at inVertex lies within the range of the
\* leaf block (inBX, inBY)
IsWithinRangeOfBlock(inShape, inVertex, inBX, inBY) ==
    /\ GetPositionY(inShape, inVertex[1], inVertex[2])
          >= HeightOf(inShape, cMaxHeightValue8
                                  * RangeOfBlock(inShape, inShape.mSampleCount \div cBlockSize, inBX, inBY).mMin)
    /\ GetPositionY(inShape, inVertex[1], inVertex[2])
          <= HeightOf(inShape, cMaxHeightValue8
                                  * RangeOfBlock(inShape, inShape.mSampleCount \div cBlockSize, inBX, inBY).mMax)

\* C27: (as stated) the range hierarchy is conservative: the decoded height
\* of every vertex of every triangle the walk generates lies within the range
\* [min, max] of the leaf block that generates the triangle, the vertices on
\* the row and column shared with the next blocks included
C27_DecodedHeightsWithinLeafRange ==
    (query.op = "GetTriangles") =>
        \A i \in 1 .. Len(query.out) : \A v \in TriangleVertices(query.out[i]) :
            IsWithinRangeOfBlock(shape, v, query.out[i].x \div cBlockSize, query.out[i].y \div cBlockSize)

\* The decoded height of a vertex lies within the range of the leaf block
\* the vertex itself belongs to
C27_DecodedHeightsWithinOwnRange ==
    (query.op = "GetTriangles") =>
        \A i \in 1 .. Len(query.out) : \A v \in TriangleVertices(query.out[i]) :
            IsWithinRangeOfBlock(shape, v, v[1] \div cBlockSize, v[2] \div cBlockSize)



\* ---------------------------------------------------------------------------
\* Claims about the samples without collision
\* ---------------------------------------------------------------------------

\* The leaf block of sample inIndex of the constructed shape is flat
IsInFlatBlock(inIndex) ==
    LET range == GetBlockOffsetAndScale(shape, inIndex % shape.mSampleCount, inIndex \div shape.mSampleCount)
    IN  range.mMin = range.mMax

\* C28: holes survive both quantizations: after a successful construction
\* IsNoCollision(x, y) holds exactly for the samples whose input height is
\* cNoCollisionValue, and the 16 bit and 8 bit values of every other sample
\* lie within [0, cMaxHeightValue16] and [0, cMaxHeightValue8], also in flat
\* blocks and in fields without any sample with collision
C28_HolesSurviveQuantization ==
    (result.state = "shape") =>
        \A x, y \in 0 .. shape.mSampleCount - 1 :
            /\ IsNoCollision(shape, x, y)
                  = (settings.mHeightSamples[(y * shape.mSampleCount) + x] = cNoCollisionValue)
            /\ (settings.mHeightSamples[(y * shape.mSampleCount) + x] # cNoCollisionValue) =>
                  /\ QuantizedSamples(settings)[(y * shape.mSampleCount) + x] \in 0 .. cMaxHeightValue16
                  /\ shape.mHeightSamples[(y * shape.mSampleCount) + x] \in 0 .. cMaxHeightValue8

\* A field with a hole, with the highest sample of the field and with a
\* sample with collision in a flat block
C28_Witness ==
    /\ result.state = "shape"
    /\ \E i, j, k \in DOMAIN settings.mHeightSamples :
          /\ settings.mHeightSamples[i] = cNoCollisionValue
          /\ shape.mHeightSamples[i] = cNoCollisionValue8
          /\ QuantizedSamples(settings)[j] = cMaxHeightValue16
          /\ shape.mHeightSamples[j] = cMaxHeightValue8
          /\ settings.mHeightSamples[k] # cNoCollisionValue
          /\ IsInFlatBlock(k)

\* A field without any sample with collision has been constructed
C28_WitnessAllHoles ==
    /\ result.state = "shape"
    /\ \A i \in DOMAIN settings.mHeightSamples : settings.mHeightSamples[i] = cNoCollisionValue



\* ---------------------------------------------------------------------------
\* Claims about the early out fraction of the single hit CastRay
\* ---------------------------------------------------------------------------

\* The broad phase has delivered a body whose cast succeeded
CastOfBodySucceeds ==
    /\ call.op = "CastRay"
    /\ call.pc = "broadphase"
    /\ call'.delivered = call.delivered + 1
    /\ Len(log'.hits) = Len(log.hits) + 1

\* C29: in the single hit NarrowPhaseQuery::CastRay the early out fraction of
\* the collector of the broad phase equals ioHit.mFraction after the
\* construction and after every AddHit, and when the cast of a body succeeds
\* the new ioHit.mFraction is >= 0 and below the early out fraction from
\* before that body (the assertion in AddHit holds), in whatever order the
\* candidates arrive
C29_EarlyOutFollowsHit ==
    /\ []((call.op = "CastRay") => (collector.mEarlyOutFraction = ioHit.mFraction))
    /\ [][ CastOfBodySucceeds =>
              /\ ioHit'.mFraction >= 0
              /\ ioHit'.mFraction < collector.mEarlyOutFraction
              /\ ioHit'.mFraction = log'.hits[Len(log'.hits)] ]_vars

\* A call that started with a hit at 0.5, took a closer hit of one body and
\* turned down a farther one of another body
C29_Witness ==
    /\ call.op = "CastRay"
    /\ call.initial = FractionOne \div 2
    /\ call.delivered >= 2
    /\ Len(log.queries) >= 2
    /\ Len(log.hits) = 1
    /\ ioHit.mFraction = FractionOne \div 4
    /\ collector.mEarlyOutFraction = FractionOne \div 4



-----------------------------------------------------------------------------
(* HeightFieldShape::GetMaterial                                            *)

\* PhysicsMaterial::sDefault
DefaultMaterial == -1

\* HeightFieldShape::GetMaterial: the material of quad (inX, inY). byte_pos is
\* the first of the two bytes read from mMaterialIndices (-1: no byte is read)
GetMaterial(inShape, inX, inY) ==
    IF Len0(inShape.mMaterials) = 0 THEN [ material |-> DefaultMaterial, byte_pos |-> -1 ]
    ELSE IF Len0(inShape.mMaterials) = 1 THEN [ material |-> inShape.mMaterials[0], byte_pos |-> -1 ]
    ELSE LET bit_pos == (inX + (inY * (inShape.mSampleCount - 1))) * inShape.mNumBitsPerMaterialIndex
         IN  [ material |->
                   inShape.mMaterials[
                       BitAnd(ReadWord(inShape.mMaterialIndices, bit_pos \div 8) \div Pow2(bit_pos % 8),
                              Pow2(inShape.mNumBitsPerMaterialIndex) - 1) ],
               byte_pos |-> bit_pos \div 8 ]

InitMaterials ==
    /\ InitLockVars
    /\ InitDispatchVars
    /\ InitNarrowPhaseVars
    /\ cBlockSize = 2
    /\ settings \in MaterialSettings
    /\ result = EmptyResult
    /\ shape = NoShape
    /\ query = NoQuery
    /\ stream = << >>
    /\ restored = NoShape

\* One call of GetMaterial for a quad of the constructed shape
CallGetMaterial ==
    /\ result.state = "shape"
    /\ query = NoQuery
    /\ \E x, y \in 0 .. shape.mSampleCount - 2 :
          query' = [ op |-> "GetMaterial", x |-> x, y |-> y, out |-> GetMaterial(shape, x, y) ]
    /\ UNCHANGED <<cBlockSize, settings, result, shape, stream, restored>>
    /\ UNCHANGED <<dispatchVars, npqVars, lockVars>>

NextMaterials ==
    \/ Create
    \/ CallGetMaterial

SpecMaterials == InitMaterials /\ [][NextMaterials]_vars

\* ---------------------------------------------------------------------------
\* Claims about the packed material indices
\* ---------------------------------------------------------------------------

\* The bit inBit of the packed array, counted from bit 0 of byte 0
PackedBit(inArray, inBit) == (inArray[inBit \div 8] \div Pow2(inBit % 8)) % 2

\* C30: the packed material indices round trip: with 2 .. 256 materials
\* GetMaterial(x, y) returns the material whose index the settings give for
\* quad x + y * (mSampleCount - 1); an index takes ceil(log2(number of
\* materials)) bits at bit quad * bits, the two bytes read or written for a
\* quad lie within the packed array, and no bit outside the bits of the quads
\* is set
C30_MaterialIndicesRoundTrip ==
    (query.op = "GetMaterial" /\ Len0(shape.mMaterials) >= 2) =>
        /\ Len0(shape.mMaterials) <= MaxMaterials
        /\ query.out.material
              = settings.mMaterials[settings.mMaterialIndices[query.x + (query.y * (shape.mSampleCount - 1))]]
        /\ Pow2(shape.mNumBitsPerMaterialIndex) >= Len0(shape.mMaterials)
        /\ Pow2(shape.mNumBitsPerMaterialIndex - 1) < Len0(shape.mMaterials)
        /\ query.out.byte_pos >= 0
        /\ query.out.byte_pos + 1 < Len0(shape.mMaterialIndices)
        /\ \A b \in Square(shape.mSampleCount - 1) * shape.mNumBitsPerMaterialIndex
                      .. (8 * Len0(shape.mMaterialIndices)) - 1 :
              PackedBit(shape.mMaterialIndices, b) = 0

\* The material of a quad whose index lies across two bytes of the packed
\* array and differs from the indices of the quads next to it
C30_Witness ==
    /\ query.op = "GetMaterial"
    /\ Len0(shape.mMaterials) = 5
    /\ query.x = 2 /\ query.y = 0
    /\ query.out.material = 104
    /\ settings.mMaterialIndices[1] = 1
    /\ settings.mMaterialIndices[3] = 1

\* The material of a quad of a field with 256 materials
C30_Witness256 ==
    /\ query.op = "GetMaterial"
    /\ Len0(shape.mMaterials) = MaxMaterials
    /\ query.out.material = 100 + 255

=============================================================================
